---- MODULE Spec2Model ----
(***************************************************************************)
(* Model of the valuation core of the financial valuation system:         *)
(*   backend/src/financial_analyzer.py   FinancialMetricsCalculator,      *)
(*                                       CompanyRanking                   *)
(*   backend/src/advanced_ranking.py     AdvancedRanking,                 *)
(*                                       PortfolioOptimizer               *)
(*   backend/src/ibovespa_analysis_system.py  IbovespaAnalysisSystem      *)
(*                                                                         *)
(* Python numbers are modelled as exact rationals n/d in lowest terms.    *)
(* A value is a record [t, n, d]: t = "num" a number n/d, "nan" numpy's   *)
(* NaN, "none" Python's None, "raise" an exception propagating out of the *)
(* expression that was being evaluated.                                    *)
(***************************************************************************)
EXTENDS Integers, Sequences, FiniteSets

VARIABLES
    selic_rate,        \* argument of FinancialMetricsCalculator.__init__ (percent, 0 = not given)
    beta,              \* beta argument of the calculator's methods
    data,              \* the CompanyFinancialData the calculator is called on
    capital_employed,  \* capital_employed argument of a direct _calculate_roce call
    companies_data,    \* Dict[str, CompanyFinancialData], in insertion order
    profile,           \* profile argument of suggest_portfolio_allocation
    metric,            \* metric argument of rank_by_metric (the sort column of rank_by_*)
    ascending,         \* ascending argument of rank_by_metric
    criteria,          \* the RankingCriteria object (five weights)
    previous,          \* an earlier call of the calculator: method, arguments, result
    op,                \* the method that was called ("init": none yet)
    ret,               \* what the call returned
    portfolio_weights, \* portfolio_weights argument of calculate_portfolio_eva
    analysis_system_instance,  \* the module global of routes/financial.py (0: None)
    constructed,       \* how many times IbovespaAnalysisSystem() was constructed
    handlers,          \* the request handlers inside get_analysis_system
    request            \* the _make_request call of a BrapiDataCollector

\* the variables of the valuation core, of the web routes, of all the others
analysis_vars == <<selic_rate, beta, data, capital_employed, companies_data, profile,
                   metric, ascending, criteria, previous, op, ret>>
web_vars == <<analysis_system_instance, constructed, handlers>>
elsewhere == <<portfolio_weights, web_vars, request>>

vars == <<analysis_vars, elsewhere>>

---------------------------------------------------------------------------
(* Bounds of the model                                                     *)

\* amounts (equity, debt, ebit, ...) range over small integers up to MaxAmount
MaxAmount == 2
\* beta ranges over 0..MaxBeta
MaxBeta == 1
\* a batch holds at most MaxCompanies companies
MaxCompanies == 4
\* a portfolio is suggested for at most MaxPortfolio companies
MaxPortfolio == 6
\* the weights of a RankingCriteria range over the integers -1..MaxWeight
MaxWeight == 2
\* a frame that is sorted or clustered (a report that is ranked, the frame of
\* identify_opportunities) holds at most MaxRanked rows
MaxRanked == 3

---------------------------------------------------------------------------
(* Python numbers                                                          *)

RECURSIVE GCD(_, _)
GCD(a, b) == IF b = 0 THEN a ELSE GCD(b, a % b)

Abs(x) == IF x < 0 THEN -x ELSE x

Min(a, b) == IF a < b THEN a ELSE b

\* the number n/d (d # 0), in lowest terms with a positive denominator
Rat(n, d) ==
    LET s == IF d < 0 THEN -1 ELSE 1
        g == GCD(Abs(n), Abs(d))
    IN  [t |-> "num", n |-> (s * n) \div g, d |-> (s * d) \div g]

Num(k) == [t |-> "num", n |-> k, d |-> 1]
NaN    == [t |-> "nan", n |-> 0, d |-> 1]
None   == [t |-> "none", n |-> 0, d |-> 1]
Raise  == [t |-> "raise", n |-> 0, d |-> 1]

IsNum(a)   == a.t = "num"
isnan(a)   == a.t = "nan"
IsRaise(a) == a.t = "raise"

\* a binary arithmetic operation on two Python values: an exception in an
\* operand propagates, None is a TypeError, NaN is contagious
Arith(a, b, r) ==
    IF IsRaise(a) \/ IsRaise(b) THEN Raise
    ELSE IF a.t = "none" \/ b.t = "none" THEN Raise
    ELSE IF isnan(a) \/ isnan(b) THEN NaN
    ELSE r

\* sums over the least common denominator and products with the common
\* factors cancelled first, so that intermediate integers stay small
RatAdd(a, b) ==
    LET g == GCD(a.d, b.d)
    IN  Rat(a.n * (b.d \div g) + b.n * (a.d \div g), (a.d \div g) * b.d)
RatNeg(a) == [t |-> "num", n |-> -a.n, d |-> a.d]
RatMul(a, b) ==
    LET g1 == GCD(Abs(a.n), b.d)
        g2 == GCD(Abs(b.n), a.d)
    IN  IF a.n = 0 \/ b.n = 0 THEN Num(0)
        ELSE Rat((a.n \div g1) * (b.n \div g2), (a.d \div g2) * (b.d \div g1))
RatInv(a) == IF a.n < 0 THEN [t |-> "num", n |-> -a.d, d |-> -a.n]
             ELSE [t |-> "num", n |-> a.d, d |-> a.n]

PyAdd(a, b) == Arith(a, b, RatAdd(a, b))
PySub(a, b) == Arith(a, b, RatAdd(a, RatNeg(b)))
PyMul(a, b) == Arith(a, b, RatMul(a, b))
\* float division by zero is a ZeroDivisionError
PyDiv(a, b) == Arith(a, b, IF b.n = 0 THEN Raise ELSE RatMul(a, RatInv(b)))

\* comparisons of numbers; every comparison with NaN is False
Gt0(a) == IsNum(a) /\ a.n > 0
Le0(a) == IsNum(a) /\ a.n <= 0
Eq0(a) == IsNum(a) /\ a.n = 0
Lt(a, b) == IsNum(a) /\ IsNum(b) /\ a.n * b.d < b.n * a.d
Le(a, b) == IsNum(a) /\ IsNum(b) /\ a.n * b.d <= b.n * a.d

---------------------------------------------------------------------------
(* FinancialMetricsCalculator                                              *)

tax_rate == Rat(34, 100)
market_risk_premium == Rat(6, 100)

\* (selic_rate / 100) if selic_rate else 0.10
risk_free_rate == IF selic_rate = 0 THEN Rat(10, 100) ELSE Rat(selic_rate, 100)

\* the operating profit with no tax taken off
_calculate_nopat_untaxed(ebit) == PyMul(ebit, Num(1))

_calculate_nopat(ebit) == PyMul(ebit, PySub(Num(1), tax_rate))

_calculate_ncg(r) == PySub(PyAdd(r.accounts_receivable, r.inventory), r.accounts_payable)

_calculate_capital_employed(r) ==
    LET imobilizado == IF r.property_plant_equipment.t # "none"
                       THEN r.property_plant_equipment ELSE Num(0)
        ncg == _calculate_ncg(r)
    IN  PyAdd(imobilizado, ncg)

_calculate_cost_of_equity_ke_stateful(b) ==
    PyAdd(risk_free_rate, PyMul(Num(IF op = "calculate_eva" THEN 0 ELSE b), market_risk_premium))

_calculate_cost_of_equity_ke(b) == PyAdd(risk_free_rate, PyMul(Num(b), market_risk_premium))

\* the cost of debt taken from the rate in percent
_calculate_cost_of_debt_kd_percent(r) ==
    IF Gt0(r.total_debt) THEN PyMul(PyMul(risk_free_rate, Num(100)), Rat(12, 10))
    ELSE Rat(5, 100)

_calculate_cost_of_debt_kd(r) ==
    IF Gt0(r.total_debt) THEN PyMul(risk_free_rate, Rat(12, 10)) ELSE Rat(5, 100)

_calculate_wacc_zero_ok(r, b) ==
    LET total_capital == PyAdd(r.equity, r.total_debt)
    IN  IF IsRaise(total_capital) THEN Raise
        ELSE IF IsNum(total_capital) /\ total_capital.n < 0 THEN NaN
        ELSE LET ke == _calculate_cost_of_equity_ke(b)
                 kd == _calculate_cost_of_debt_kd(r)
                 percent_ke == PyDiv(r.equity, total_capital)
                 percent_kd == PyDiv(r.total_debt, total_capital)
             IN  PyAdd(PyMul(ke, percent_ke),
                       PyMul(PyMul(kd, PySub(Num(1), tax_rate)), percent_kd))

_calculate_wacc(r, b) ==
    LET total_capital == PyAdd(r.equity, r.total_debt)
    IN  IF IsRaise(total_capital) THEN Raise
        ELSE IF Le0(total_capital) THEN NaN
        ELSE LET ke == _calculate_cost_of_equity_ke(b)
                 kd == _calculate_cost_of_debt_kd(r)
                 percent_ke == PyDiv(r.equity, total_capital)
                 percent_kd == PyDiv(r.total_debt, total_capital)
             IN  PyAdd(PyMul(ke, percent_ke),
                       PyMul(PyMul(kd, PySub(Num(1), tax_rate)), percent_kd))

_calculate_roce(r, ce) ==
    IF Eq0(ce) THEN NaN
    ELSE LET nopat == _calculate_nopat(r.ebit)
         IN  PyDiv(nopat, ce)

\* a pair whose evaluation raised
RaisePair == <<Raise, Raise>>
NaNPair   == <<NaN, NaN>>

\* calculate_eva after capital_employed, wacc and roce are computed (wacc and
\* roce are computed, and looked at, only when capital_employed > 0)
calculate_eva_body_zero_only(ce, wacc, roce) ==
    IF IsRaise(ce) THEN RaisePair
    ELSE IF Eq0(ce) THEN NaNPair
    ELSE IF IsRaise(wacc) \/ IsRaise(roce) THEN RaisePair
    ELSE IF isnan(wacc) \/ isnan(roce) THEN NaNPair
    ELSE <<PyMul(ce, PySub(roce, wacc)), PyMul(PySub(roce, wacc), Num(100))>>

calculate_eva_body(ce, wacc, roce) ==
    IF IsRaise(ce) THEN RaisePair
    ELSE IF Le0(ce) THEN NaNPair
    ELSE IF IsRaise(wacc) \/ IsRaise(roce) THEN RaisePair
    ELSE IF isnan(wacc) \/ isnan(roce) THEN NaNPair
    ELSE <<PyMul(ce, PySub(roce, wacc)), PyMul(PySub(roce, wacc), Num(100))>>

calculate_eva(r, b) ==
    calculate_eva_body(_calculate_capital_employed(r), _calculate_wacc(r, b),
                       _calculate_roce(r, _calculate_capital_employed(r)))

\* calculate_riqueza_atual after eva_abs and wacc are computed
calculate_riqueza_atual_body(eva_abs, wacc) ==
    IF IsRaise(eva_abs) \/ IsRaise(wacc) THEN Raise
    ELSE IF isnan(eva_abs) \/ isnan(wacc) \/ Eq0(wacc) THEN NaN
    ELSE PyDiv(eva_abs, wacc)

calculate_riqueza_atual(r, b) ==
    calculate_riqueza_atual_body(calculate_eva(r, b)[1], _calculate_wacc(r, b))

\* the future wealth with the debt left out
calculate_riqueza_futura_body_equity(r, ce) ==
    IF IsRaise(ce) THEN Raise
    ELSE IF isnan(r.market_cap) \/ isnan(r.total_debt) \/ isnan(ce) THEN NaN
    ELSE PySub(r.market_cap, ce)

\* calculate_riqueza_futura after capital_employed is computed
calculate_riqueza_futura_body(r, ce) ==
    IF IsRaise(ce) THEN Raise
    ELSE IF isnan(r.market_cap) \/ isnan(r.total_debt) \/ isnan(ce) THEN NaN
    ELSE PySub(PyAdd(r.market_cap, r.total_debt), ce)

calculate_riqueza_futura(r) ==
    calculate_riqueza_futura_body(r, _calculate_capital_employed(r))

\* calculate_efv after the two riquezas are computed; ce is the
\* capital_employed computed for the percentage
calculate_efv_body(riqueza_atual_abs, riqueza_futura_esperada_abs, ce) ==
    IF IsRaise(riqueza_atual_abs) \/ IsRaise(riqueza_futura_esperada_abs) THEN RaisePair
    ELSE IF isnan(riqueza_atual_abs) \/ isnan(riqueza_futura_esperada_abs) THEN NaNPair
    ELSE IF IsRaise(ce) THEN RaisePair
    ELSE IF Le0(ce) THEN NaNPair
    ELSE <<PySub(riqueza_futura_esperada_abs, riqueza_atual_abs),
           PyMul(PyDiv(PySub(riqueza_futura_esperada_abs, riqueza_atual_abs), ce),
                 Num(100))>>

calculate_efv(r, b) ==
    calculate_efv_body(calculate_riqueza_atual(r, b), calculate_riqueza_futura(r),
                       _calculate_capital_employed(r))

calculate_upside_zero_only(r, efv_abs) ==
    IF Eq0(r.market_cap) THEN NaN
    ELSE PyMul(PyDiv(efv_abs, r.market_cap), Num(100))

calculate_upside(r, efv_abs) ==
    IF Le0(r.market_cap) THEN NaN
    ELSE PyMul(PyDiv(efv_abs, r.market_cap), Num(100))

\* upside = calculate_upside(data, efv_abs) if not np.isnan(efv_abs) else np.nan
UpsideOf(r, efv_abs) == IF ~isnan(efv_abs) THEN calculate_upside(r, efv_abs) ELSE NaN

---------------------------------------------------------------------------
(* CompanyRanking._calculate_all_metrics                                   *)

\* the error dictionary returned by the except branch
ErrorMetrics(r) ==
    [ticker |-> r.ticker, error |-> TRUE, market_cap |-> r.market_cap,
     wacc_percentual |-> None, eva_abs |-> None, eva_percentual |-> None,
     efv_abs |-> None, efv_percentual |-> None, riqueza_atual |-> None,
     riqueza_futura |-> None, upside_percentual |-> None, combined_score |-> None]

\* score_combinado = 0; if not np.isnan(x): score_combinado += x * weight
\* the running sum without the isnan test
AddIfDefined_always(score, x, weight) == PyAdd(score, PyMul(x, weight))

AddIfDefined(score, x, weight) == IF ~isnan(x) THEN PyAdd(score, PyMul(x, weight)) ELSE score

\* the try block after the calls of the calculator, beta = 1.0
_calculate_all_metrics_body(r, wacc0, eva, efv, riqueza_atual, riqueza_futura) ==
    LET wacc   == IF isnan(wacc0) THEN Num(0) ELSE wacc0
        upside == UpsideOf(r, efv[1])
        score_combinado ==
            AddIfDefined(AddIfDefined(AddIfDefined(Num(0),
                eva[2], Rat(4, 10)), efv[2], Rat(4, 10)), upside, Rat(2, 10))
    IN  IF \/ IsRaise(wacc0) \/ IsRaise(eva[1]) \/ IsRaise(efv[1])
           \/ IsRaise(riqueza_atual) \/ IsRaise(riqueza_futura) \/ IsRaise(upside)
        THEN ErrorMetrics(r)
        ELSE [ticker |-> r.ticker, error |-> FALSE, market_cap |-> r.market_cap,
              wacc_percentual |-> IF ~isnan(wacc) THEN PyMul(wacc, Num(100)) ELSE NaN,
              eva_abs |-> eva[1], eva_percentual |-> eva[2],
              efv_abs |-> efv[1], efv_percentual |-> efv[2],
              riqueza_atual |-> riqueza_atual, riqueza_futura |-> riqueza_futura,
              upside_percentual |-> upside, combined_score |-> score_combinado]

_calculate_all_metrics(r) ==
    _calculate_all_metrics_body(r, _calculate_wacc(r, 1), calculate_eva(r, 1),
        calculate_efv(r, 1), calculate_riqueza_atual(r, 1), calculate_riqueza_futura(r))

---------------------------------------------------------------------------
(* CompanyRanking.generate_ranking_report                                  *)

\* df[col].replace([inf, -inf], nan).fillna(0)
fillna0(x) == IF isnan(x) THEN Num(0) ELSE x

\* the columns cleaned before the report is returned
CleanRow(m) ==
    [m EXCEPT !.wacc_percentual = fillna0(@), !.eva_percentual = fillna0(@),
              !.efv_percentual = fillna0(@), !.riqueza_atual = fillna0(@),
              !.riqueza_futura = fillna0(@), !.upside_percentual = fillna0(@),
              !.combined_score = fillna0(@)]

\* if 'error' not in metrics: report_data.append(metrics)
KeepRow_all(m) == TRUE
KeepRow(m) == ~m.error

\* what one company contributes to report_data
ReportRow(metrics) == IF KeepRow(metrics) THEN <<CleanRow(metrics)>> ELSE <<>>

RECURSIVE ReportRows(_, _)
ReportRows(cd, i) ==
    IF i > Len(cd) THEN <<>>
    ELSE ReportRow(_calculate_all_metrics(cd[i])) \o ReportRows(cd, i + 1)

generate_ranking_report(cd) == ReportRows(cd, 1)

\* report_df.empty / not companies_data
df_empty_never(df) == FALSE
df_empty(df) == Len(df) = 0

----------------------------------------------------------------------(* CompanyRanking.rank_by_metric, rank_by_eva, rank_by_efv, ...           *)

\* the permutations of 1..n
Permutations(n) ==
    {p \in [1..n -> 1..n] : \A i, j \in 1..n : p[i] = p[j] => i = j}

\* df.columns (a frame built from an empty list has no columns)
columns(df) == IF Len(df) = 0 THEN {} ELSE DOMAIN df[1]

\* the row orders df.sort_values(by=col, ascending=asc) may return: sorted on
\* the one column; no second key is given and the default sort is not stable,
\* so the order among equal values is the sort's choice
sort_values(df, col, asc) ==
    {p \in Permutations(Len(df)) :
        \A k \in 1..(Len(df) - 1) :
            IF asc THEN Le(df[p[k]][col], df[p[k + 1]][col])
            ELSE Le(df[p[k + 1]][col], df[p[k]][col])}

\* the orders of a sort on col; the sort is not reached when the column is missing
OrdersOf(df, col, asc) ==
    IF col \in columns(df) THEN sort_values(df, col, asc) ELSE {<<>>}

\* sorted_df[['ticker', metric]].values.tolist(), or [] for an unknown metric
rank_by_metric(df, col, order) ==
    IF col \notin columns(df) THEN [raised |-> FALSE, rows |-> <<>>]
    ELSE [raised |-> FALSE,
          rows |-> [k \in 1..Len(df) |-> <<df[order[k]].ticker, df[order[k]][col]>>]]

\* rank_by_eva and rank_by_efv: [ticker, absolute, percentual]; sort_values
\* raises KeyError on a frame without the column
rank_by_pair(df, abs_col, col, order) ==
    IF col \notin columns(df) THEN [raised |-> TRUE, rows |-> <<>>]
    ELSE [raised |-> FALSE,
          rows |-> [k \in 1..Len(df) |->
                      <<df[order[k]].ticker, df[order[k]][abs_col], df[order[k]][col]>>]]

rank_by_eva(df, order) == rank_by_pair(df, "eva_abs", "eva_percentual", order)
rank_by_efv(df, order) == rank_by_pair(df, "efv_abs", "efv_percentual", order)

\* rank_by_upside and rank_by_combined_score: [ticker, value]
rank_by_single(df, col, order) ==
    IF col \notin columns(df) THEN [raised |-> TRUE, rows |-> <<>>]
    ELSE rank_by_metric(df, col, order)

rank_by_upside(df, order) == rank_by_single(df, "upside_percentual", order)
rank_by_combined_score(df, order) == rank_by_single(df, "combined_score", order)

-----
(* AdvancedRanking._prepare_data_for_ml and identify_opportunities         *)

\* the row _prepare_data_for_ml builds for one company; no exception is caught here
MlRow_body(r, eva, efv, riqueza_atual, riqueza_futura) ==
    LET upside == UpsideOf(r, efv[1])
    IN  [ticker |-> r.ticker,
         raised |-> \/ IsRaise(eva[1]) \/ IsRaise(efv[1]) \/ IsRaise(riqueza_atual)
                    \/ IsRaise(riqueza_futura) \/ IsRaise(upside),
         eva_pct |-> fillna0(eva[2]), efv_pct |-> fillna0(efv[2]),
         upside_pct |-> fillna0(upside),
         riqueza_atual |-> fillna0(riqueza_atual),
         riqueza_futura |-> fillna0(riqueza_futura)]

MlRow(r) ==
    MlRow_body(r, calculate_eva(r, 1), calculate_efv(r, 1),
               calculate_riqueza_atual(r, 1), calculate_riqueza_futura(r))

_prepare_data_for_ml(cd) == [i \in 1..Len(cd) |-> MlRow(cd[i])]

\* the tickers of the rows of df, in row order
TickersOf(df) == [i \in 1..Len(df) |-> df[i].ticker]

\* all_metrics_df['simple_combined_score'] = eva_pct*0.4 + efv_pct*0.4 + upside_pct*0.2
with_simple_combined_score(df) ==
    [i \in 1..Len(df) |->
        [ticker |-> df[i].ticker, raised |-> df[i].raised,
         eva_pct |-> df[i].eva_pct, efv_pct |-> df[i].efv_pct,
         upside_pct |-> df[i].upside_pct, riqueza_atual |-> df[i].riqueza_atual,
         riqueza_futura |-> df[i].riqueza_futura,
         simple_combined_score |->
             PyAdd(PyAdd(PyMul(df[i].eva_pct, Rat(4, 10)), PyMul(df[i].efv_pct, Rat(4, 10))),
                   PyMul(df[i].upside_pct, Rat(2, 10)))]]

\* a frame is not reached by the statements after _prepare_data_for_ml when a
\* company's metrics raised there
df_raised(df) == \E i \in 1..Len(df) : df[i].raised

\* the row orders of sort_values(by='simple_combined_score', ascending=False)
TopOrders(df) ==
    IF df_raised(df) THEN {<<>>} ELSE sort_values(df, "simple_combined_score", FALSE)

\* the entry of best_opportunities for one row: (ticker, reasons, score)
BestOpportunity(row) ==
    <<row.ticker,
      (IF Gt0(row.eva_pct) THEN <<"EVA Positivo">> ELSE <<>>)
          \o (IF Gt0(row.efv_pct) THEN <<"EFV Positivo">> ELSE <<>>)
          \o (IF Gt0(row.upside_pct) THEN <<"Upside">> ELSE <<>>),
      row.simple_combined_score>>

\* the features handed to the clustering
Features(row) ==
    <<row.eva_pct, row.efv_pct, row.upside_pct, row.riqueza_atual, row.riqueza_futura>>

\* KMeans(n_clusters=3, ...)
n_clusters == 3

\* the outcome when the clustering is not reached
NoKMeans == [failed |-> FALSE, ids |-> {}, groups |-> {}]

\* the ways of splitting rows 1..n into k non-empty groups, each way given once
\* (by the labelling that numbers the groups in order of first appearance)
Groupings(n, k) ==
    {f \in [1..n -> 1..k] :
        /\ \A c \in 1..k : \E i \in 1..n : f[i] = c
        /\ \A i \in 1..n : \A c \in 1..(f[i] - 1) : \E j \in 1..(i - 1) : f[j] = c}

\* KMeans(n_clusters=3).fit_predict on the standardised features.  sklearn
\* raises ValueError when there are fewer samples than clusters.  Otherwise
\* every row gets a label in 0..2; the standardisation is an increasing affine
\* map of each column, so rows are equal after it exactly when they are equal
\* before it; equal rows get the same label, and the number of labels in use
\* is the number of distinct rows, at most n_clusters.  Which rows share a
\* cluster and which labels are in use is left open.  The outcome is kept up
\* to which group carries which of the labels in use: ids are the labels in
\* use, groups the sets of row numbers that share a label.
fit_predict(df) ==
    IF df_raised(df) \/ Len(df) = 0 THEN {NoKMeans}
    ELSE IF Len(df) < n_clusters THEN {[failed |-> TRUE, ids |-> {}, groups |-> {}]}
    ELSE LET k == Min(n_clusters, Cardinality({Features(df[i]) : i \in 1..Len(df)}))
         IN  {[failed |-> FALSE, ids |-> ids,
               groups |-> {{i \in 1..Len(df) : f[i] = c} : c \in 1..k}] :
                 ids \in {s \in SUBSET (0..(n_clusters - 1)) : Cardinality(s) = k},
                 f \in {g \in Groupings(Len(df), k) :
                          \A i, j \in 1..Len(df) :
                              Features(df[i]) = Features(df[j]) => g[i] = g[j]}}

\* f"Cluster {cluster_id + 1}"
ClusterName(cluster_id) == <<"Cluster 1", "Cluster 2", "Cluster 3">>[cluster_id + 1]

\* the tickers of the rows of a group, in row order
ClusterCompanies(df, group) ==
    LET InCluster(i) == i \in group
    IN  TickersOf([k \in 1..Cardinality(group) |->
                      df[SelectSeq([i \in 1..Len(df) |-> i], InCluster)[k]]])

\* opportunities['clusters'] after the try/except around the clustering: the
\* keys of the dictionary and the lists it holds (up to which key holds which
\* list); the error entry alone when fit_predict raised
kmeans_clusters_silent(df, km) ==
    IF km.failed
    THEN [keys |-> {}, lists |-> {}]
    ELSE [keys |-> {ClusterName(id) : id \in km.ids},
          lists |-> {ClusterCompanies(df, group) : group \in km.groups}]

kmeans_clusters(df, km) ==
    IF km.failed
    THEN [keys |-> {"Erro no Clustering"},
          lists |-> {<<"Nao foi possivel agrupar as empresas.">>}]
    ELSE [keys |-> {ClusterName(id) : id \in km.ids},
          lists |-> {ClusterCompanies(df, group) : group \in km.groups}]

\* the dictionary as it is initialised
EmptyOpportunities(raised) ==
    [raised |-> raised, value_creators |-> <<>>, growth_potential |-> <<>>,
     undervalued |-> <<>>, best_opportunities |-> <<>>,
     clusters |-> [keys |-> {}, lists |-> {}]]

\* identify_opportunities after all_metrics_df is prepared and scored; order is
\* the row order of the sort on simple_combined_score, km the outcome of
\* fit_predict (sector_rankings, which needs ibovespa_data, is left out)
\* the undervalued test with the threshold of the other two buckets
Undervalued_positive(row) == Gt0(row.upside_pct)

\* row['upside_pct'] > 20
Undervalued(row) == Lt(Num(20), row.upside_pct)

identify_opportunities_body(all_metrics_df, order, km) ==
    LET ValueCreator(row) == Gt0(row.eva_pct)
        Growth(row)       == Gt0(row.efv_pct)
    IN  IF df_raised(all_metrics_df) THEN EmptyOpportunities(TRUE)
        ELSE IF Len(all_metrics_df) = 0 THEN EmptyOpportunities(FALSE)
        ELSE [raised |-> FALSE,
              value_creators   |-> TickersOf(SelectSeq(all_metrics_df, ValueCreator)),
              growth_potential |-> TickersOf(SelectSeq(all_metrics_df, Growth)),
              undervalued      |-> TickersOf(SelectSeq(all_metrics_df, Undervalued)),
              best_opportunities |->
                  [k \in 1..Min(5, Len(order)) |-> BestOpportunity(all_metrics_df[order[k]])],
              clusters |-> kmeans_clusters(all_metrics_df, km)]

identify_opportunities(cd, order, km) ==
    identify_opportunities_body(with_simple_combined_score(_prepare_data_for_ml(cd)),
                                order, km)

---------------------------------------------------------------------------
(* PortfolioOptimizer                                                      *)

\* the internal score of one company: eva_pct + 1.5*efv_pct + upside, each
\* added only when it is not NaN
AllocationScore_body(r, eva, efv) ==
    LET upside == UpsideOf(r, efv[1])
    IN  IF IsRaise(eva[1]) \/ IsRaise(efv[1]) \/ IsRaise(upside) THEN Raise
        ELSE AddIfDefined(AddIfDefined(AddIfDefined(Num(0),
                 eva[2], Num(1)), efv[2], Rat(3, 2)), upside, Num(1))

AllocationScore(r) == AllocationScore_body(r, calculate_eva(r, 1), calculate_efv(r, 1))

\* the 'score' column of processed_data, one entry per company
ScoresOf(cd) == [i \in 1..Len(cd) |-> AllocationScore(cd[i])]

\* the sum of f[i] over the set S of indices
RECURSIVE SumOver(_, _)
SumOver(f, S) ==
    IF S = {} THEN Num(0)
    ELSE LET i == CHOOSE j \in S : TRUE
         IN  RatAdd(f[i], SumOver(f, S \ {i}))

\* <<q, r>> with n * 10^places = q * d + r and 0 <= r < d, by long division
RECURSIVE LongDiv(_, _, _, _)
LongDiv(q, r, d, places) ==
    IF places = 0 THEN <<q, r>>
    ELSE LongDiv(10 * q + ((10 * r) \div d), (10 * r) % d, d, places - 1)

\* round(v, 4): to the nearest multiple of 1/10000, ties to even
round4(v) ==
    LET qr == LongDiv(v.n \div v.d, v.n % v.d, v.d, 4)
        q  == qr[1]
        r  == qr[2]
        k  == IF 2 * r > v.d THEN q + 1
              ELSE IF 2 * r < v.d THEN q
              ELSE IF q % 2 = 0 THEN q ELSE q + 1
    IN  Rat(k, 10000)

\* df.head(top_n) after df.sort_values(by='score', ascending=False): a set of
\* top_n rows none of which has a smaller score than a row left out (the order
\* among equal scores is the sort's choice)
Heads(score, top_n) ==
    {T \in SUBSET (DOMAIN score) :
        /\ Cardinality(T) = top_n
        /\ \A i \in T : \A j \in (DOMAIN score) \ T : Le(score[j], score[i])}


\* the conservative and aggressive branches: share of the top_n companies
\* top_share, the rest 1 - top_share; head is df.head(top_n)
Concentrated_flat(score, head, top_share) ==
    [i \in DOMAIN score |-> PyDiv(score[i], SumOver(score, DOMAIN score))]

Concentrated(score, head, top_share) ==
    LET all  == DOMAIN score
        rest == all \ head
        total_top_score == SumOver(score, head)
        remaining_total_score == SumOver(score, rest)
    IN  IF Gt0(total_top_score)
        THEN [i \in (IF Gt0(remaining_total_score) THEN all ELSE head) |->
                IF i \in head
                THEN RatMul(PyDiv(score[i], total_top_score), top_share)
                ELSE RatMul(PyDiv(score[i], remaining_total_score),
                            RatAdd(Num(1), RatNeg(top_share)))]
        ELSE [i \in all |-> Rat(1, Cardinality(all))]

\* the weights before the final normalisation, for a non-zero total_score
RawWeights_caseless(score, prof, head) ==
    IF prof \in {"conservative", "Conservative"} THEN Concentrated(score, head, Rat(7, 10))
    ELSE IF prof \in {"aggressive", "AGGRESSIVE"} THEN Concentrated(score, head, Rat(8, 10))
    ELSE LET total_score == SumOver(score, DOMAIN score)
         IN  [i \in DOMAIN score |-> PyDiv(score[i], total_score)]

RawWeights(score, prof, head) ==
    IF prof = "conservative" THEN Concentrated(score, head, Rat(7, 10))
    ELSE IF prof = "aggressive" THEN Concentrated(score, head, Rat(8, 10))
    ELSE LET total_score == SumOver(score, DOMAIN score)
         IN  [i \in DOMAIN score |-> PyDiv(score[i], total_score)]

\* top_n of the profile (moderate takes no head)
TopN(prof, n) ==
    IF prof = "conservative" THEN Min(n, 5)
    ELSE IF prof = "aggressive" THEN Min(n, 3)
    ELSE 0

\* the final normalisation and round(v, 4) of the weights
NormaliseAndRound(w) ==
    LET current_sum == SumOver(w, DOMAIN w)
    IN  [i \in DOMAIN w |->
            round4(IF Gt0(current_sum) THEN PyDiv(w[i], current_sum) ELSE w[i])]

\* suggest_portfolio_allocation after the scores are computed; head is the
\* sort's df.head(top_n).  An exception of the calculator propagates, and an
\* empty dictionary gives a frame without a 'score' column, on which
\* sort_values raises KeyError.
suggest_portfolio_allocation_body(score, prof, head) ==
    IF DOMAIN score = {} \/ \E i \in DOMAIN score : IsRaise(score[i])
    THEN [raised |-> TRUE, weights |-> <<>>]
    ELSE IF Eq0(SumOver(score, DOMAIN score))
    THEN [raised |-> FALSE, weights |-> [i \in DOMAIN score |-> Num(0)]]
    ELSE [raised |-> FALSE, weights |-> NormaliseAndRound(RawWeights(score, prof, head))]

\* the result maps tickers (positions of companies_data) to weights
suggest_portfolio_allocation(cd, prof, head) ==
    suggest_portfolio_allocation_body(ScoresOf(cd), prof, head)

\* the heads the sort may produce for these scores and this profile
HeadsOf_body(score, prof) ==
    IF \E i \in DOMAIN score : IsRaise(score[i]) THEN {{}}
    ELSE Heads(score, TopN(prof, Cardinality(DOMAIN score)))

HeadsOf(cd, prof) == HeadsOf_body(ScoresOf(cd), prof)

\* calculate_portfolio_eva without its isnan test: every known ticker is added
calculate_portfolio_eva_all(weights, cd) ==
    LET known == {i \in DOMAIN weights : i \in 1..Len(cd)}
        eva_abs == [i \in known |-> calculate_eva(cd[i], 1)[1]]
        ce      == [i \in known |-> _calculate_capital_employed(cd[i])]
        total_portfolio_eva_abs ==
            SumOver([i \in known |-> PyMul(eva_abs[i], weights[i])], known)
        total_portfolio_capital_employed ==
            SumOver([i \in known |-> PyMul(ce[i], weights[i])], known)
    IN  <<total_portfolio_eva_abs,
          IF Gt0(total_portfolio_capital_employed)
          THEN PyMul(PyDiv(total_portfolio_eva_abs, total_portfolio_capital_employed),
                     Num(100))
          ELSE NaN>>

\* calculate_portfolio_eva: (total eva_abs, eva_pct) of the weighted portfolio
calculate_portfolio_eva(weights, cd) ==
    LET known == {i \in DOMAIN weights : i \in 1..Len(cd)}
        eva_abs == [i \in known |-> calculate_eva(cd[i], 1)[1]]
        ce      == [i \in known |-> _calculate_capital_employed(cd[i])]
        used    == {i \in known : ~isnan(eva_abs[i]) /\ ~isnan(ce[i])}
        total_portfolio_eva_abs ==
            SumOver([i \in used |-> PyMul(eva_abs[i], weights[i])], used)
        total_portfolio_capital_employed ==
            SumOver([i \in used |-> PyMul(ce[i], weights[i])], used)
    IN  IF \E i \in known : IsRaise(eva_abs[i]) \/ IsRaise(ce[i]) THEN RaisePair
        ELSE <<total_portfolio_eva_abs,
               IF Gt0(total_portfolio_capital_employed)
               THEN PyMul(PyDiv(total_portfolio_eva_abs, total_portfolio_capital_employed),
                          Num(100))
               ELSE NaN>>

---------------------------------------------------------------------------
(* IbovespaAnalysisSystem.run_complete_analysis                            *)

\* not companies_data
dict_empty(cd) == Len(cd) = 0

NoOpportunities == EmptyOpportunities(FALSE)

\* the returned dictionary (status "raised": an exception left the method
\* instead); stages are the stages that ran to completion
Report(status, message, stages, rows, opportunities, weights, portfolio_eva) ==
    [status |-> status, message |-> message, stages |-> stages,
     total_companies_analyzed |-> Len(rows), full_report_data |-> rows,
     opportunities |-> opportunities, portfolio_weights |-> weights,
     portfolio_eva |-> portfolio_eva]

run_complete_analysis_body(cd, report_df, opportunities, allocation, portfolio_eva) ==
    IF dict_empty(cd)
    THEN Report("error", "Nenhum dado coletado para analise.", {},
                <<>>, NoOpportunities, <<>>, NaNPair)
    ELSE IF df_empty(report_df)
    THEN Report("error", "Relatorio de metricas esta vazio. Verifique os calculos.",
                {"report"}, <<>>, NoOpportunities, <<>>, NaNPair)
    ELSE IF opportunities.raised
    THEN Report("raised", "", {"report", "rankings"},
                <<>>, NoOpportunities, <<>>, NaNPair)
    ELSE IF allocation.raised \/ IsRaise(portfolio_eva[1])
    THEN Report("raised", "", {"report", "rankings", "opportunities"},
                <<>>, NoOpportunities, <<>>, NaNPair)
    ELSE Report("success", "", {"report", "rankings", "opportunities", "allocation"},
                report_df, opportunities, allocation.weights, portfolio_eva)

\* the portfolio is the 'moderate' one, which takes no head of the sort;
\* opportunities is what identify_opportunities returned
run_complete_analysis(cd, opportunities) ==
    run_complete_analysis_body(cd, generate_ranking_report(cd), opportunities,
        suggest_portfolio_allocation(cd, "moderate", {}),
        calculate_portfolio_eva(suggest_portfolio_allocation(cd, "moderate", {}).weights, cd))

---------------------------------------------------------------------------
(* RankingCriteria                                                         *)

Criteria(eva, efv, upside, profitability, liquidity) ==
    [eva_weight |-> eva, efv_weight |-> efv, upside_weight |-> upside,
     profitability_weight |-> profitability, liquidity_weight |-> liquidity]

\* the dataclass defaults 0.3, 0.3, 0.2, 0.1, 0.1
DefaultCriteria == Criteria(Rat(3, 10), Rat(3, 10), Rat(2, 10), Rat(1, 10), Rat(1, 10))


\* RankingCriteria.normalize_weights: the weights divided by their total when
\* the total is positive, left as they are otherwise
normalize_weights_always(c) ==
    LET total == PyAdd(PyAdd(PyAdd(PyAdd(c.eva_weight, c.efv_weight), c.upside_weight),
                             c.profitability_weight), c.liquidity_weight)
    IN  IF ~Eq0(total) THEN [f \in DOMAIN c |-> PyDiv(c[f], total)] ELSE c

normalize_weights(c) ==
    LET total == PyAdd(PyAdd(PyAdd(PyAdd(c.eva_weight, c.efv_weight), c.upside_weight),
                             c.profitability_weight), c.liquidity_weight)
    IN  IF Gt0(total) THEN [f \in DOMAIN c |-> PyDiv(c[f], total)] ELSE c

---------------------------------------------------------------------------
(* AdvancedRanking.custom_rank_companies                                   *)

\* sklearn's MinMaxScaler().fit_transform on one column xs: X * scale_ + min_
\* with scale_ = 1 / (data_max - data_min), a zero range handled as 1, and
\* min_ = 0 - data_min * scale_
fit_transform(xs) ==
    LET data_min   == xs[CHOOSE i \in 1..Len(xs) : \A j \in 1..Len(xs) : Le(xs[i], xs[j])]
        data_max   == xs[CHOOSE i \in 1..Len(xs) : \A j \in 1..Len(xs) : Le(xs[j], xs[i])]
        data_range == PySub(data_max, data_min)
        scale_     == PyDiv(Num(1), IF Eq0(data_range) THEN Num(1) ELSE data_range)
        min_       == PySub(Num(0), PyMul(data_min, scale_))
    IN  [i \in 1..Len(xs) |-> PyAdd(PyMul(xs[i], scale_), min_)]

\* self.min_max_scaler.fit_transform(np.array([[x]])) if not np.isnan(x) else 0:
\* the scaler is fitted on the one value
scaled(x) == IF ~isnan(x) THEN fit_transform(<<x>>)[1] ELSE Num(0)

\* the entry appended to processed_data for one company, the three metrics
\* being computed
CustomRow_body(r, c, eva_pct, efv_pct, upside) ==
    LET profitability_score ==
            IF Gt0(r.revenue) THEN PyMul(PyDiv(r.net_income, r.revenue), Num(100))
            ELSE Num(0)
        liquidity_score ==
            IF Gt0(r.current_liabilities)
            THEN PyMul(PyDiv(r.current_assets, r.current_liabilities), Num(100))
            ELSE Num(0)
        final_score ==
            PyAdd(PyAdd(PyAdd(PyAdd(
                PyMul(scaled(eva_pct), c.eva_weight),
                PyMul(scaled(efv_pct), c.efv_weight)),
                PyMul(scaled(upside), c.upside_weight)),
                PyMul(scaled(profitability_score), c.profitability_weight)),
                PyMul(scaled(liquidity_score), c.liquidity_weight))
    IN  [raised |-> IsRaise(eva_pct) \/ IsRaise(efv_pct) \/ IsRaise(upside),
         ticker |-> r.ticker, eva_pct |-> eva_pct, efv_pct |-> efv_pct,
         upside_pct |-> upside, profitability_score |-> profitability_score,
         liquidity_score |-> liquidity_score, final_score |-> final_score]

CustomRow(r, c) ==
    CustomRow_body(r, c, calculate_eva(r, 1)[2], calculate_efv(r, 1)[2],
                   UpsideOf(r, calculate_efv(r, 1)[1]))

\* processed_data.sort(key=final_score, reverse=True): the sort is stable,
\* entries of equal score keep the order they were appended in
sort_reverse(rows) ==
    LET p == CHOOSE q \in Permutations(Len(rows)) :
                 \A i, j \in 1..Len(rows) : i < j =>
                     \/ Lt(rows[q[j]].final_score, rows[q[i]].final_score)
                     \/ /\ rows[q[j]].final_score = rows[q[i]].final_score
                        /\ q[i] < q[j]
    IN  [k \in 1..Len(rows) |-> rows[p[k]]]

\* the sorted list, or the exception of the first company whose metrics raise
custom_rank_companies_body(rows) ==
    IF \E k \in 1..Len(rows) : rows[k].raised
    THEN [raised |-> TRUE, rows |-> <<>>]
    ELSE [raised |-> FALSE, rows |-> sort_reverse(rows)]

\* c is the criteria object after criteria.normalize_weights()
custom_rank_companies(cd, c) ==
    custom_rank_companies_body([i \in 1..Len(cd) |-> CustomRow(cd[i], c)])

---------------------------------------------------------------------------
(* Calls of the calculator on one record                                   *)

Amounts == {Num(k) : k \in -1..MaxAmount}

\* the records the calculator is called on; ebit may be non-numeric (None)
Records ==
    [ticker : {1},
     market_cap : {Num(0), Num(MaxAmount)},
     total_debt : Amounts,
     equity : Amounts,
     ebit : {None, Num(-1), Num(0), Num(MaxAmount)},
     property_plant_equipment : {None, Num(0), Num(2)},
     accounts_receivable : {Num(0), Num(1)},
     inventory : {Num(0), Num(1)},
     accounts_payable : {Num(0), Num(2)}]

\* selic_rate arguments, in percent: none given, a usual rate, and the negative
\* rate at which the cost of equity of a beta of 1 is 0
SelicRates == {0, 15, -6}

NoRecord ==
    [ticker |-> 1, market_cap |-> Num(0), total_debt |-> Num(0), equity |-> Num(0),
     ebit |-> Num(0), property_plant_equipment |-> None, accounts_receivable |-> Num(0),
     inventory |-> Num(0), accounts_payable |-> Num(0)]

\* no earlier call is remembered
NoCall == [op |-> "init", data |-> NoRecord, beta |-> 0, ret |-> <<>>]

\* nothing outside the valuation core has happened
Idle ==
    /\ portfolio_weights = <<>>
    /\ analysis_system_instance = 0
    /\ constructed = 0
    /\ handlers = <<>>
    /\ request = <<>>

Init ==
    /\ Idle
    /\ selic_rate \in SelicRates
    /\ beta \in 0..MaxBeta
    /\ data \in Records
    /\ capital_employed = Num(0)
    /\ companies_data = <<>>
    /\ profile = "moderate"
    /\ metric = "combined_score"
    /\ ascending = FALSE
    /\ criteria = DefaultCriteria
    /\ previous = NoCall
    /\ op = "init"
    /\ ret = <<>>

Call_calculate_wacc ==
    /\ op = "init"
    /\ op' = "_calculate_wacc"
    /\ ret' = <<_calculate_wacc(data, beta)>>
    /\ UNCHANGED <<elsewhere, metric, ascending, criteria, previous, selic_rate, beta, data, capital_employed, companies_data, profile>>

\* _calculate_roce called directly with a capital_employed of the caller's choice
Call_calculate_roce ==
    /\ op = "init"
    /\ \E c \in -1..1 :
         /\ capital_employed' = Num(c)
         /\ ret' = <<_calculate_roce(data, Num(c))>>
    /\ op' = "_calculate_roce"
    /\ UNCHANGED <<elsewhere, metric, ascending, criteria, previous, selic_rate, beta, data, companies_data, profile>>

Call_calculate_eva ==
    /\ op = "init"
    /\ op' = "calculate_eva"
    /\ ret' = calculate_eva(data, beta)
    /\ UNCHANGED <<elsewhere, metric, ascending, criteria, previous, selic_rate, beta, data, capital_employed, companies_data, profile>>

Call_calculate_efv ==
    /\ op = "init"
    /\ op' = "calculate_efv"
    /\ ret' = calculate_efv(data, beta)
    /\ UNCHANGED <<elsewhere, metric, ascending, criteria, previous, selic_rate, beta, data, capital_employed, companies_data, profile>>

Call_calculate_all_metrics ==
    /\ op = "init"
    /\ op' = "_calculate_all_metrics"
    /\ ret' = _calculate_all_metrics(data)
    /\ UNCHANGED <<elsewhere, metric, ascending, criteria, previous, selic_rate, beta, data, capital_employed, companies_data, profile>>

Next ==
    \/ Call_calculate_wacc
    \/ Call_calculate_roce
    \/ Call_calculate_eva
    \/ Call_calculate_efv
    \/ Call_calculate_all_metrics

Spec == Init /\ [][Next]_vars

---------------------------------------------------------------------------
(* Claims about the calculator (specification Spec)                        *)

\* equity + total_debt and the capital employed of the record, as integers
\* (equity, total_debt and the working-capital fields of Records are numbers)
TotalCapitalOf(r) == r.equity.n + r.total_debt.n
CapitalEmployedOf(r) ==
    (IF r.property_plant_equipment.t = "none" THEN 0 ELSE r.property_plant_equipment.n)
    + r.accounts_receivable.n + r.inventory.n - r.accounts_payable.n

\* C7: in the result of _calculate_all_metrics a field whose formula is
\* undefined is carried as Undefined (NaN), never as 0 (combined_score
\* excepted); in particular wacc_percentual is NaN when equity + total_debt <= 0.
C7_UndefinedNeverZeroed ==
    (op = "_calculate_all_metrics" /\ ~ret.error) =>
        /\ TotalCapitalOf(data) <= 0 => isnan(ret.wacc_percentual)
        /\ isnan(calculate_eva(data, 1)[1]) => isnan(ret.eva_abs) /\ isnan(ret.eva_percentual)
        /\ isnan(calculate_efv(data, 1)[1]) => isnan(ret.efv_abs) /\ isnan(ret.efv_percentual)
        /\ isnan(calculate_riqueza_atual(data, 1)) => isnan(ret.riqueza_atual)

\* C8: _calculate_wacc returns Undefined iff equity + total_debt <= 0, and
\* otherwise ke*E/(E+D) + kd*(1-0.34)*D/(E+D) with ke = risk_free + beta*0.06
\* and kd = risk_free*1.2 when total_debt > 0, else 0.05.
C8_WaccFormula ==
    op = "_calculate_wacc" =>
        LET E  == data.equity.n
            D  == data.total_debt.n
            rf == IF selic_rate = 0 THEN Rat(1, 10) ELSE Rat(selic_rate, 100)
            ke == RatAdd(rf, Rat(6 * beta, 100))
            kd == IF D > 0 THEN RatMul(rf, Rat(6, 5)) ELSE Rat(1, 20)
        IN  /\ isnan(ret[1]) <=> (E + D <= 0)
            /\ E + D > 0 =>
                 /\ IsNum(ret[1])
                 /\ RatMul(ret[1], Num(E + D))
                      = RatAdd(RatMul(ke, Num(E)), RatMul(RatMul(kd, Rat(66, 100)), Num(D)))

C8_Witness ==
    /\ op = "_calculate_wacc"
    /\ data.equity.n > 0 /\ data.total_debt.n > 0 /\ beta = 1
    /\ IsNum(ret[1])

\* C9: with capital_employed <= 0, calculate_eva returns (NaN, NaN) and
\* calculate_efv returns (NaN, NaN), whatever the other fields are.
C9_NonPositiveCapitalUndefined ==
    (op \in {"calculate_eva", "calculate_efv"} /\ CapitalEmployedOf(data) <= 0) =>
        ret = NaNPair

C9_Witness ==
    /\ op = "calculate_eva"
    /\ CapitalEmployedOf(data) < 0
    /\ TotalCapitalOf(data) > 0
    /\ IsNum(data.ebit) /\ data.ebit.n > 0
    /\ ret = NaNPair

\* C10: for every capital_employed <= 0 (zero and negative alike)
\* _calculate_roce yields Undefined (NaN) on a record with a numeric ebit.
C10_RoceUndefinedForNonPositive ==
    (op = "_calculate_roce" /\ IsNum(data.ebit) /\ Le0(capital_employed)) =>
        isnan(ret[1])

---------------------------------------------------------------------------
(* Calls on a batch of companies (specification SpecBatch)                 *)

\* the Selic rate IbovespaAnalysisSystem falls back to
DefaultSelic == 10

Company(equity, total_debt, ebit, market_cap, ppe, payables) ==
    [ticker |-> 1, market_cap |-> Num(market_cap), total_debt |-> Num(total_debt),
     equity |-> Num(equity), ebit |-> ebit, property_plant_equipment |-> ppe,
     accounts_receivable |-> Num(0), inventory |-> Num(0),
     accounts_payable |-> Num(payables),
     net_income |-> Num(1), revenue |-> Num(2),
     current_assets |-> Num(1), current_liabilities |-> Num(payables)]

\* the kinds of company a batch is made of
CompanyPositive   == Company(1, 0, Num(-3), 1, Num(1), 0)   \* score  12519/4
CompanyNegative   == Company(1, 0, Num(10), 5, Num(2), 0)   \* score -12519/4
CompanySmallNeg   == Company(1, 0, Num(0), 0, Num(1), 0)    \* score -16
CompanyUndefined  == Company(1, 1, Num(1), 1, None, 1)      \* capital employed -1, score 0
CompanyModest     == Company(1, 0, Num(0), 1, Num(1), 0)    \* score  234
CompanyMalformed  == Company(1, 1, None, 2, Num(1), 0)      \* ebit is not a number
CompanyNegativeCap == Company(1, 0, Num(0), -1, Num(1), 0)  \* market_cap -1, score -166

\* listed in the order in which a batch holds them
Catalogue ==
    <<CompanyPositive, CompanyMalformed, CompanyNegative, CompanyUndefined,
      CompanyModest, CompanySmallNeg, CompanyNegativeCap>>

\* the batches of n companies, identified up to the order of insertion: the
\* kinds appear in catalogue order
KindsOf(n) ==
    {k \in [1..n -> 1..Len(Catalogue)] : \A i \in 1..(n - 1) : k[i] <= k[i + 1]}

\* the dictionaries of at most MaxCompanies companies; the ticker of a
\* company is its position
Batches ==
    UNION {{[i \in 1..n |-> [Catalogue[k[i]] EXCEPT !.ticker = i]] : k \in KindsOf(n)} :
           n \in 0..MaxCompanies}

Profiles == {"conservative", "aggressive", "moderate", "unknown"}

InitBatch ==
    /\ Idle
    /\ selic_rate = DefaultSelic
    /\ beta = 1
    /\ data = NoRecord
    /\ capital_employed = Num(0)
    /\ companies_data \in Batches
    /\ profile = "moderate"
    /\ metric = "combined_score"
    /\ ascending = FALSE
    /\ criteria = DefaultCriteria
    /\ previous = NoCall
    /\ op = "init"
    /\ ret = <<>>

Call_generate_ranking_report ==
    /\ op = "init"
    /\ op' = "generate_ranking_report"
    /\ ret' = generate_ranking_report(companies_data)
    /\ UNCHANGED <<elsewhere, metric, ascending, criteria, previous, selic_rate, beta, data, capital_employed, companies_data, profile>>

\* the call on the prepared and scored frame: the sort and the clustering
\* each settle on one of their outcomes
IdentifyOpportunities(df) ==
    \E order \in TopOrders(df) : \E km \in fit_predict(df) :
        ret' = identify_opportunities_body(df, order, km)

Call_identify_opportunities ==
    /\ op = "init"
    /\ Len(companies_data) <= MaxRanked
    /\ op' = "identify_opportunities"
    /\ IdentifyOpportunities(with_simple_combined_score(_prepare_data_for_ml(companies_data)))
    /\ UNCHANGED <<elsewhere, metric, ascending, criteria, previous, selic_rate, beta, data, capital_employed, companies_data, profile>>

Call_suggest_portfolio_allocation ==
    /\ op = "init"
    /\ \E prof \in Profiles :
         \E head \in HeadsOf(companies_data, prof) :
            /\ profile' = prof
            /\ ret' = suggest_portfolio_allocation(companies_data, prof, head)
    /\ op' = "suggest_portfolio_allocation"
    /\ UNCHANGED <<elsewhere, metric, ascending, criteria, previous, selic_rate, beta, data, capital_employed, companies_data>>

\* what identify_opportunities may return on a prepared and scored frame
OpportunitiesOf(df) ==
    {identify_opportunities_body(df, order, km) :
        order \in TopOrders(df), km \in fit_predict(df)}

\* the call, the report, the allocation and the portfolio EVA being computed
\* and identify_opportunities returning one of the values in outcomes
RunCompleteAnalysis(report_df, allocation, portfolio_eva, outcomes) ==
    \E opportunities \in outcomes :
        ret' = run_complete_analysis_body(companies_data, report_df, opportunities,
                                          allocation, portfolio_eva)

Call_run_complete_analysis ==
    /\ op = "init"
    /\ Len(companies_data) <= MaxRanked
    /\ op' = "run_complete_analysis"
    /\ RunCompleteAnalysis(
           generate_ranking_report(companies_data),
           suggest_portfolio_allocation(companies_data, "moderate", {}),
           calculate_portfolio_eva(
               suggest_portfolio_allocation(companies_data, "moderate", {}).weights,
               companies_data),
           OpportunitiesOf(with_simple_combined_score(_prepare_data_for_ml(companies_data))))
    /\ UNCHANGED <<elsewhere, metric, ascending, criteria, previous, selic_rate, beta, data, capital_employed, companies_data, profile>>

NextBatch ==
    \/ Call_generate_ranking_report
    \/ Call_identify_opportunities
    \/ Call_suggest_portfolio_allocation
    \/ Call_run_complete_analysis

SpecBatch == InitBatch /\ [][NextBatch]_vars

---------------------------------------------------------------------------
(* Claims about a batch (specification SpecBatch)                          *)

\* some call of the calculator raises on the record
MetricsRaise(r) ==
    \/ IsRaise(_calculate_wacc(r, 1))
    \/ IsRaise(calculate_eva(r, 1)[1])
    \/ IsRaise(calculate_efv(r, 1)[1])
    \/ IsRaise(calculate_riqueza_atual(r, 1))
    \/ IsRaise(calculate_riqueza_futura(r))
    \/ IsRaise(UpsideOf(r, calculate_efv(r, 1)[1]))

\* the tickers of the batch whose metrics are computed without an exception
Survivors(cd) == {i \in 1..Len(cd) : ~MetricsRaise(cd[i])}

\* |sum of the weights - 1| <= 1e-4
SumsToOne(w) ==
    LET total == SumOver(w, DOMAIN w)
    IN  /\ Le(Rat(9999, 10000), total)
        /\ Le(total, Rat(10001, 10000))

AllocationReturned == op = "suggest_portfolio_allocation" /\ ~ret.raised

\* C1: whenever at least one company has a strictly positive score, the
\* weights suggest_portfolio_allocation returns sum to 1.0 within 1e-4, for
\* every profile, also when positive and negative scores cancel to 0.
C1_WeightsSumToOne ==
    (AllocationReturned /\ \E i \in 1..Len(companies_data) : Gt0(ScoresOf(companies_data)[i]))
        => SumsToOne(ret.weights)

\* C2: every returned weight is >= 0 and every company with a non-positive
\* score receives weight 0 (stated for the batches with at least one positive
\* score, where the uniform fallback of C3 does not apply).
C2_NonNegativeWeights ==
    (AllocationReturned /\ \E i \in 1..Len(companies_data) : Gt0(ScoresOf(companies_data)[i]))
        => \A i \in DOMAIN ret.weights :
              /\ Le(Num(0), ret.weights[i])
              /\ Le0(ScoresOf(companies_data)[i]) => ret.weights[i] = Num(0)

\* C3: if every company has a non-positive score, the result is the uniform
\* distribution 1/n over all n input tickers, summing to 1.0 within 1e-4.
C3_UniformFallback ==
    (AllocationReturned /\ \A i \in 1..Len(companies_data) : Le0(ScoresOf(companies_data)[i]))
        => /\ DOMAIN ret.weights = 1..Len(companies_data)
           /\ \A i \in DOMAIN ret.weights :
                 ret.weights[i] = round4(Rat(1, Len(companies_data)))
           /\ SumsToOne(ret.weights)

\* C4: an exception in the metrics of one company never aborts
\* run_complete_analysis: with at least one other company it returns a
\* success report with the rows of all the other companies, and the ranking,
\* opportunity and allocation stages have run.
C4_FailureIsolated ==
    (op = "run_complete_analysis" /\ Survivors(companies_data) # {}) =>
        /\ ret.status = "success"
        /\ {ret.full_report_data[k].ticker : k \in 1..Len(ret.full_report_data)}
              = Survivors(companies_data)
        /\ {"rankings", "opportunities", "allocation"} \subseteq ret.stages

\* C5: generate_ranking_report leaves out exactly the companies whose metric
\* computation raised and holds one row for each of the others.
C5_ReportExcludesFailures ==
    op = "generate_ranking_report" =>
        /\ {ret[k].ticker : k \in 1..Len(ret)} = Survivors(companies_data)
        /\ Len(ret) = Cardinality(Survivors(companies_data))
        /\ \A k \in 1..Len(ret) : ~ret[k].error

C5_Witness ==
    /\ op = "generate_ranking_report"
    /\ Len(companies_data) >= 2
    /\ \E i \in 1..Len(companies_data) : MetricsRaise(companies_data[i])
    /\ Len(ret) = Len(companies_data) - 1

\* C6: with an empty input, or when no company survives the metric
\* computation, run_complete_analysis returns status 'error' with a message,
\* raises nothing and runs no ranking, opportunity or allocation stage.
C6_EmptyBatchIsError ==
    (op = "run_complete_analysis" /\ Survivors(companies_data) = {}) =>
        /\ ret.status = "error"
        /\ ret.message # ""
        /\ ret.stages \cap {"rankings", "opportunities", "allocation"} = {}

C6_Witness ==
    /\ op = "run_complete_analysis"
    /\ Len(companies_data) >= 1
    /\ \A i \in 1..Len(companies_data) : MetricsRaise(companies_data[i])
    /\ ret.status = "error"

\* C11: a record with market_cap <= 0 has an Undefined (NaN) upside, and
\* after identify_opportunities its ticker is not in the 'undervalued' bucket.
C11_NoUpsideWithoutMarketCap ==
    op = "identify_opportunities" =>
        \A i \in 1..Len(companies_data) :
            Le0(companies_data[i].market_cap) =>
                /\ isnan(UpsideOf(companies_data[i], calculate_efv(companies_data[i], 1)[1]))
                /\ ~ret.raised =>
                      \A k \in 1..Len(ret.undervalued) : ret.undervalued[k] # i

C11_Witness ==
    /\ op = "identify_opportunities"
    /\ ~ret.raised
    /\ \E i \in 1..Len(companies_data) : companies_data[i].market_cap = Num(-1)
    /\ \E i \in 1..Len(companies_data) : companies_data[i].market_cap = Num(0)
    /\ Len(ret.undervalued) >= 1

---------------------------------------------------------------------------
(* Rankings of a report (specification SpecRank)                           *)

\* reports of at most MaxRanked rows are ranked
InitRank ==
    /\ InitBatch
    /\ Len(companies_data) <= MaxRanked

\* the metrics rank_by_metric is called with; the last one is no column
RankMetrics == {"combined_score", "riqueza_atual", "dividend_yield"}

RankByMetric(df) ==
    \E m \in RankMetrics : \E a \in BOOLEAN : \E order \in OrdersOf(df, m, a) :
        /\ metric' = m
        /\ ascending' = a
        /\ ret' = rank_by_metric(df, m, order)

Call_rank_by_metric ==
    /\ op = "init"
    /\ RankByMetric(generate_ranking_report(companies_data))
    /\ op' = "rank_by_metric"
    /\ UNCHANGED <<elsewhere, criteria, previous, selic_rate, beta, data, capital_employed,
                   companies_data, profile>>

RankByEva(df) ==
    \E order \in OrdersOf(df, "eva_percentual", FALSE) : ret' = rank_by_eva(df, order)

Call_rank_by_eva ==
    /\ op = "init"
    /\ RankByEva(generate_ranking_report(companies_data))
    /\ metric' = "eva_percentual" /\ ascending' = FALSE
    /\ op' = "rank_by_eva"
    /\ UNCHANGED <<elsewhere, criteria, previous, selic_rate, beta, data, capital_employed,
                   companies_data, profile>>

RankByEfv(df) ==
    \E order \in OrdersOf(df, "efv_percentual", FALSE) : ret' = rank_by_efv(df, order)

Call_rank_by_efv ==
    /\ op = "init"
    /\ RankByEfv(generate_ranking_report(companies_data))
    /\ metric' = "efv_percentual" /\ ascending' = FALSE
    /\ op' = "rank_by_efv"
    /\ UNCHANGED <<elsewhere, criteria, previous, selic_rate, beta, data, capital_employed,
                   companies_data, profile>>

RankByUpside(df) ==
    \E order \in OrdersOf(df, "upside_percentual", FALSE) : ret' = rank_by_upside(df, order)

Call_rank_by_upside ==
    /\ op = "init"
    /\ RankByUpside(generate_ranking_report(companies_data))
    /\ metric' = "upside_percentual" /\ ascending' = FALSE
    /\ op' = "rank_by_upside"
    /\ UNCHANGED <<elsewhere, criteria, previous, selic_rate, beta, data, capital_employed,
                   companies_data, profile>>

RankByCombinedScore(df) ==
    \E order \in OrdersOf(df, "combined_score", FALSE) :
        ret' = rank_by_combined_score(df, order)

Call_rank_by_combined_score ==
    /\ op = "init"
    /\ RankByCombinedScore(generate_ranking_report(companies_data))
    /\ metric' = "combined_score" /\ ascending' = FALSE
    /\ op' = "rank_by_combined_score"
    /\ UNCHANGED <<elsewhere, criteria, previous, selic_rate, beta, data, capital_employed,
                   companies_data, profile>>

NextRank ==
    \/ Call_rank_by_metric
    \/ Call_rank_by_eva
    \/ Call_rank_by_efv
    \/ Call_rank_by_upside
    \/ Call_rank_by_combined_score

SpecRank == InitRank /\ [][NextRank]_vars

RankOps ==
    {"rank_by_metric", "rank_by_eva", "rank_by_efv", "rank_by_upside",
     "rank_by_combined_score"}

\* the metric value of a returned row is its last element
MetricOf(row) == row[Len(row)]

\* C12: every ranking is ordered by the chosen metric in the requested
\* direction, and two companies with equal metric values appear in ascending
\* ticker order.
C12_RankingTiesByTicker ==
    (op \in RankOps /\ ~ret.raised) =>
        \A k \in 1..(Len(ret.rows) - 1) :
            /\ IF ascending THEN Le(MetricOf(ret.rows[k]), MetricOf(ret.rows[k + 1]))
               ELSE Le(MetricOf(ret.rows[k + 1]), MetricOf(ret.rows[k]))
            /\ MetricOf(ret.rows[k]) = MetricOf(ret.rows[k + 1])
                  => ret.rows[k][1] < ret.rows[k + 1][1]

---------------------------------------------------------------------------
(* The cleaned report                                                      *)

\* the numeric columns of a report row
NumericColumns(row) ==
    {row.market_cap, row.wacc_percentual, row.eva_abs, row.eva_percentual,
     row.efv_abs, row.efv_percentual, row.riqueza_atual, row.riqueza_futura,
     row.upside_percentual, row.combined_score}

\* C13: in the report returned by generate_ranking_report no numeric column,
\* eva_abs and efv_abs included, holds an undefined (NaN) value.
C13_ReportHasNoNaN ==
    op = "generate_ranking_report" =>
        \A k \in 1..Len(ret) : \A x \in NumericColumns(ret[k]) : ~isnan(x)

---------------------------------------------------------------------------
(* The custom ranking (specification SpecCustom)                           *)

\* only the eva weight counts
EvaOnly == Criteria(Num(1), Num(0), Num(0), Num(0), Num(0))

\* the criteria custom_rank_companies is called with
CustomCriteria == {DefaultCriteria, EvaOnly, Criteria(Num(0), Num(0), Num(0), Num(0), Num(0))}

InitCustom ==
    /\ Idle
    /\ selic_rate = DefaultSelic
    /\ beta = 1
    /\ data = NoRecord
    /\ capital_employed = Num(0)
    /\ companies_data \in {b \in Batches : Len(b) <= MaxRanked}
    /\ profile = "moderate"
    /\ metric = "final_score"
    /\ ascending = FALSE
    /\ criteria \in CustomCriteria
    /\ previous = NoCall
    /\ op = "init"
    /\ ret = <<>>

\* criteria.normalize_weights() comes first and changes the caller's object
Call_custom_rank_companies ==
    /\ op = "init"
    /\ op' = "custom_rank_companies"
    /\ criteria' = normalize_weights(criteria)
    /\ ret' = custom_rank_companies(companies_data, normalize_weights(criteria))
    /\ UNCHANGED <<elsewhere, metric, ascending, previous, selic_rate, beta, data, capital_employed,
                   companies_data, profile>>

NextCustom == Call_custom_rank_companies

SpecCustom == InitCustom /\ [][NextCustom]_vars

\* two or more companies, every eva_pct defined, no two of them equal
DistinctDefinedEva(rows) ==
    /\ Len(rows) >= 2
    /\ \A k \in 1..Len(rows) : IsNum(rows[k].eva_pct)
    /\ \A j, k \in 1..Len(rows) : j # k => rows[j].eva_pct # rows[k].eva_pct

\* C14: with eva_weight = 1 and every other weight 0, a batch of two or more
\* companies with distinct defined eva_pct is returned in strictly descending
\* eva_pct order, the first entry with final_score 1 and the last with 0.
C14_BatchRelativeScaling ==
    (/\ op = "custom_rank_companies"
     /\ criteria = EvaOnly
     /\ ~ret.raised
     /\ DistinctDefinedEva(ret.rows)) =>
        /\ \A k \in 1..(Len(ret.rows) - 1) :
               Lt(ret.rows[k + 1].eva_pct, ret.rows[k].eva_pct)
        /\ ret.rows[1].final_score = Num(1)
        /\ ret.rows[Len(ret.rows)].final_score = Num(0)

---------------------------------------------------------------------------
(* The clusters of identify_opportunities                                  *)

\* the elements of a list
Range(s) == {s[k] : k \in 1..Len(s)}

\* C15: for every non-empty batch of n companies the clusters split the input
\* tickers into exactly min(3, n) non-empty, pairwise disjoint groups whose
\* union is the set of all input tickers.
C15_ClustersPartitionTickers ==
    (op = "identify_opportunities" /\ ~ret.raised /\ Len(companies_data) >= 1) =>
        /\ "Erro no Clustering" \notin ret.clusters.keys
        /\ Cardinality(ret.clusters.keys) = Min(3, Len(companies_data))
        /\ Cardinality(ret.clusters.lists) = Min(3, Len(companies_data))
        /\ \A g \in ret.clusters.lists : Len(g) >= 1
        /\ \A g, h \in ret.clusters.lists : g # h => Range(g) \cap Range(h) = {}
        /\ UNION {Range(g) : g \in ret.clusters.lists} = 1..Len(companies_data)

\* the clustering step is reached and fit_predict raises
KMeansFails(df) == \E km \in fit_predict(df) : km.failed

\* the positions of a list of tickers are strictly increasing
InRowOrder(tickers) == \A k \in 1..(Len(tickers) - 1) : tickers[k] < tickers[k + 1]

\* C16: when the k-means step fails, identify_opportunities raises nothing,
\* 'clusters' holds the entry 'Erro no Clustering' and nothing else, and the
\* value_creators, growth_potential, undervalued and best_opportunities
\* buckets hold what the metrics of the companies give.
C16_ClusteringFailureIsContained ==
    (/\ op = "identify_opportunities"
     /\ KMeansFails(with_simple_combined_score(_prepare_data_for_ml(companies_data)))) =>
        /\ ~ret.raised
        /\ ret.clusters.keys = {"Erro no Clustering"}
        /\ ret.clusters.lists = {<<"Nao foi possivel agrupar as empresas.">>}
        /\ Range(ret.value_creators)
             = {i \in 1..Len(companies_data) : Gt0(calculate_eva(companies_data[i], 1)[2])}
        /\ Range(ret.growth_potential)
             = {i \in 1..Len(companies_data) : Gt0(calculate_efv(companies_data[i], 1)[2])}
        /\ Range(ret.undervalued)
             = {i \in 1..Len(companies_data) :
                   Lt(Num(20), UpsideOf(companies_data[i],
                                        calculate_efv(companies_data[i], 1)[1]))}
        /\ InRowOrder(ret.value_creators)
        /\ InRowOrder(ret.growth_potential)
        /\ InRowOrder(ret.undervalued)
        /\ {ret.best_opportunities[k][1] : k \in 1..Len(ret.best_opportunities)}
             = 1..Len(companies_data)
        /\ Len(ret.best_opportunities) = Len(companies_data)
        /\ \A k \in 1..(Len(ret.best_opportunities) - 1) :
               Le(ret.best_opportunities[k + 1][3], ret.best_opportunities[k][3])

C16_Witness ==
    /\ op = "identify_opportunities"
    /\ Len(companies_data) = 2
    /\ ~ret.raised
    /\ ret.clusters.keys = {"Erro no Clustering"}
    /\ Len(ret.best_opportunities) = 2
    /\ Len(ret.growth_potential) >= 1
    /\ Len(ret.undervalued) = 1

---------------------------------------------------------------------------
(* RankingCriteria.normalize_weights (specification SpecCriteria)          *)

Weights == {Num(k) : k \in -1..MaxWeight}

\* the criteria objects normalize_weights is called on
CriteriaObjects ==
    {Criteria(a, b, c, d, e) : a \in Weights, b \in Weights, c \in Weights,
                               d \in Weights, e \in Weights}
        \cup {DefaultCriteria}

InitCriteria ==
    /\ Idle
    /\ selic_rate = DefaultSelic
    /\ beta = 1
    /\ data = NoRecord
    /\ capital_employed = Num(0)
    /\ companies_data = <<>>
    /\ profile = "moderate"
    /\ metric = "combined_score"
    /\ ascending = FALSE
    /\ criteria \in CriteriaObjects
    /\ previous = NoCall
    /\ op = "init"
    /\ ret = <<>>

\* the method changes the object in place and returns None
Call_normalize_weights ==
    /\ op = "init"
    /\ op' = "normalize_weights"
    /\ criteria' = normalize_weights(criteria)
    /\ ret' = None
    /\ UNCHANGED <<elsewhere, metric, ascending, previous, selic_rate, beta, data, capital_employed,
                   companies_data, profile>>

NextCriteria == Call_normalize_weights

SpecCriteria == InitCriteria /\ [][NextCriteria]_vars

WeightNames ==
    {"eva_weight", "efv_weight", "upside_weight", "profitability_weight", "liquidity_weight"}

\* the sum of the five weights
TotalWeight(c) ==
    PyAdd(PyAdd(PyAdd(PyAdd(c.eva_weight, c.efv_weight), c.upside_weight),
                c.profitability_weight), c.liquidity_weight)

\* C17: after normalize_weights the five weights sum to 1.0 and keep their
\* pairwise ratios when the raw sum is positive; when the raw sum is zero or
\* negative every weight is left as it was.
C17_NormalizeWeights ==
    [][op' = "normalize_weights" =>
          IF Gt0(TotalWeight(criteria))
          THEN /\ TotalWeight(criteria') = Num(1)
               /\ \A f, g \in WeightNames :
                      PyMul(criteria'[f], criteria[g]) = PyMul(criteria'[g], criteria[f])
          ELSE criteria' = criteria]_vars

C17_Witness ==
    /\ op = "normalize_weights"
    /\ criteria = Criteria(Rat(1, 2), Rat(1, 4), Rat(1, 4), Num(0), Num(0))

---------------------------------------------------------------------------
(* Sequences of calls on one calculator (specification SpecCalls)          *)

\* the records the calculator is called on, one after the other
CallRecords == {CompanyPositive, CompanyNegative, CompanyUndefined, CompanyMalformed}

EngineOps ==
    {"_calculate_wacc", "calculate_eva", "calculate_efv", "calculate_riqueza_atual",
     "calculate_riqueza_futura", "calculate_upside"}

InitCalls ==
    /\ Idle
    /\ selic_rate \in SelicRates
    /\ beta \in 0..MaxBeta
    /\ data \in CallRecords
    /\ capital_employed = Num(0)
    /\ companies_data = <<>>
    /\ profile = "moderate"
    /\ metric = "combined_score"
    /\ ascending = FALSE
    /\ criteria = DefaultCriteria
    /\ previous = NoCall
    /\ op = "init"
    /\ ret = <<>>

\* the observer keeps the call it remembers or remembers the last call instead
Remember ==
    previous' \in {previous}
        \cup (IF op \in EngineOps
              THEN {[op |-> op, data |-> data, beta |-> beta, ret |-> ret]} ELSE {})

\* the caller turns to another record and beta
Pass_arguments ==
    /\ \E r \in CallRecords : \E b \in 0..MaxBeta :
         /\ <<r, b>> # <<data, beta>>
         /\ data' = r
         /\ beta' = b
    /\ op' = "arguments"
    /\ ret' = <<>>
    /\ Remember
    /\ UNCHANGED <<elsewhere, metric, ascending, criteria, selic_rate, capital_employed,
                   companies_data, profile>>

\* what a method of the calculator leaves alone: none of them assigns to self
\* or to the record
Untouched ==
    <<elsewhere, metric, ascending, criteria, selic_rate, beta, data, capital_employed,
      companies_data, profile>>

Again_calculate_wacc ==
    /\ op' = "_calculate_wacc"
    /\ ret' = <<_calculate_wacc(data, beta)>>
    /\ Remember
    /\ UNCHANGED Untouched

Again_calculate_eva ==
    /\ op' = "calculate_eva"
    /\ ret' = calculate_eva(data, beta)
    /\ Remember
    /\ UNCHANGED Untouched

Again_calculate_efv ==
    /\ op' = "calculate_efv"
    /\ ret' = calculate_efv(data, beta)
    /\ Remember
    /\ UNCHANGED Untouched

Again_calculate_riqueza_atual ==
    /\ op' = "calculate_riqueza_atual"
    /\ ret' = <<calculate_riqueza_atual(data, beta)>>
    /\ Remember
    /\ UNCHANGED Untouched

Again_calculate_riqueza_futura ==
    /\ op' = "calculate_riqueza_futura"
    /\ ret' = <<calculate_riqueza_futura(data)>>
    /\ Remember
    /\ UNCHANGED Untouched

\* calculate_upside(data, efv_abs) on the efv_abs of the same record and beta
Again_calculate_upside ==
    /\ op' = "calculate_upside"
    /\ ret' = <<calculate_upside(data, calculate_efv(data, beta)[1])>>
    /\ Remember
    /\ UNCHANGED Untouched

NextCalls ==
    \/ Pass_arguments
    \/ Again_calculate_wacc
    \/ Again_calculate_eva
    \/ Again_calculate_efv
    \/ Again_calculate_riqueza_atual
    \/ Again_calculate_riqueza_futura
    \/ Again_calculate_upside

SpecCalls == InitCalls /\ [][NextCalls]_vars

---------------------------------------------------------------------------
(* Portfolios by profile (specification SpecPortfolio)                     *)

\* the kinds of company in the larger batches
PortfolioKinds == <<CompanyPositive, CompanyModest, CompanyUndefined, CompanySmallNeg>>

\* the dictionaries of 1..MaxPortfolio companies of these kinds, the kinds in
\* the order of PortfolioKinds
PortfolioBatches ==
    UNION {{[i \in 1..n |-> [PortfolioKinds[k[i]] EXCEPT !.ticker = i]] :
              k \in {f \in [1..n -> 1..Len(PortfolioKinds)] :
                       \A i \in 1..(n - 1) : f[i] <= f[i + 1]}} :
           n \in 1..MaxPortfolio}

\* profile arguments: the three profiles, other spellings of them, other strings
AnyProfiles ==
    {"conservative", "aggressive", "moderate", "", "Moderate", "Conservative",
     "AGGRESSIVE", "unknown"}

InitPortfolio ==
    /\ Idle
    /\ selic_rate = DefaultSelic
    /\ beta = 1
    /\ data = NoRecord
    /\ capital_employed = Num(0)
    /\ companies_data \in PortfolioBatches
    /\ profile = "moderate"
    /\ metric = "combined_score"
    /\ ascending = FALSE
    /\ criteria = DefaultCriteria
    /\ previous = NoCall
    /\ op = "init"
    /\ ret = <<>>

\* the call on the computed scores; the sort settles on one head
SuggestPortfolioAllocation(score) ==
    \E prof \in AnyProfiles : \E head \in HeadsOf_body(score, prof) :
        /\ profile' = prof
        /\ ret' = suggest_portfolio_allocation_body(score, prof, head)

Call_suggest_for_profile ==
    /\ op = "init"
    /\ SuggestPortfolioAllocation(ScoresOf(companies_data))
    /\ op' = "suggest_portfolio_allocation"
    /\ UNCHANGED <<elsewhere, metric, ascending, criteria, previous, selic_rate, beta, data,
                   capital_employed, companies_data>>

\* the weights a caller may pass: shares, nothing, a short position
WeightValues == {Num(-1), Num(0), Rat(1, 2), Num(1)}

\* the largest record dictionary handed to calculate_portfolio_eva
MaxHeld == 2

\* the weight dictionaries over the tickers of cd and one ticker cd lacks
PortfolioWeights(cd) ==
    UNION {[held -> WeightValues] : held \in SUBSET (1..(Len(cd) + 1))}

\* calculate_portfolio_eva(portfolio_weights, companies_data)
Call_calculate_portfolio_eva ==
    /\ op = "init"
    /\ Len(companies_data) <= MaxHeld
    /\ \E weights \in PortfolioWeights(companies_data) :
          /\ portfolio_weights' = weights
          /\ ret' = calculate_portfolio_eva(weights, companies_data)
    /\ op' = "calculate_portfolio_eva"
    /\ UNCHANGED <<web_vars, request, metric, ascending, criteria, previous, selic_rate,
                   beta, data, capital_employed, companies_data, profile>>

NextPortfolio == Call_suggest_for_profile \/ Call_calculate_portfolio_eva

SpecPortfolio == InitPortfolio /\ [][NextPortfolio]_vars

\* the size of the top bucket and its share, for the two concentrated profiles
TopBucket(prof) == IF prof = "conservative" THEN 5 ELSE 3
TopShare(prof) == IF prof = "conservative" THEN Rat(7, 10) ELSE Rat(8, 10)

\* |a - b| <= n * 0.00005, the rounding of n weights to four decimals
WithinRounding(a, b, n) ==
    /\ Le(RatAdd(a, RatNeg(b)), Rat(n, 20000))
    /\ Le(RatAdd(b, RatNeg(a)), Rat(n, 20000))

\* the weights w give the bucket T its share, split in proportion to score
BucketSplit(w, score, T, share) ==
    /\ T \subseteq DOMAIN w
    /\ WithinRounding(SumOver(w, T), share, Cardinality(T))
    /\ \A i \in T : w[i] = round4(RatMul(PyDiv(score[i], SumOver(score, T)), share))

\* the top bucket T is one of the top-by-score sets and the weights split
\* top_share over T and the remainder over the other companies
SplitByProfile(w, score, prof) ==
    \E T \in Heads(score, TopBucket(prof)) :
        /\ BucketSplit(w, score, T, TopShare(prof))
        /\ BucketSplit(w, score, (DOMAIN score) \ T, RatAdd(Num(1), RatNeg(TopShare(prof))))

\* a call with a concentrated profile on a batch larger than the top bucket
ConcentratedCall ==
    /\ op = "suggest_portfolio_allocation"
    /\ ~ret.raised
    /\ profile \in {"conservative", "aggressive"}
    /\ Len(companies_data) > TopBucket(profile)

\* both buckets have a positive total score
BothBucketsPositive(score, prof) ==
    \E T \in Heads(score, TopBucket(prof)) :
        /\ Gt0(SumOver(score, T))
        /\ Gt0(SumOver(score, (DOMAIN score) \ T))

C20_UnknownProfileIsModerate ==
    (op = "suggest_portfolio_allocation"
     /\ profile \notin {"conservative", "aggressive", "moderate"}) =>
        ret = suggest_portfolio_allocation(companies_data, "moderate", {})

C20_Witness ==
    /\ op = "suggest_portfolio_allocation"
    /\ profile = "Conservative"
    /\ ~ret.raised
    /\ Len(companies_data) > TopBucket("conservative")
    /\ \E i, j \in DOMAIN ret.weights : ret.weights[i] # ret.weights[j]


\* the tickers of the portfolio that are in the records with a defined EVA
Weighted ==
    {i \in DOMAIN portfolio_weights :
       /\ i \in 1..Len(companies_data)
       /\ IsNum(calculate_eva(companies_data[i], 1)[1])}

EvaAbsTotal ==
    SumOver([i \in Weighted |->
               RatMul(portfolio_weights[i], calculate_eva(companies_data[i], 1)[1])],
            Weighted)

CapitalEmployedTotal ==
    SumOver([i \in Weighted |->
               RatMul(portfolio_weights[i], Num(CapitalEmployedOf(companies_data[i])))],
            Weighted)

\* C21: calculate_portfolio_eva returns the sum of weight * eva_abs over the
\* weighted tickers that are in the records and have a defined EVA, which is
\* always a number, and that sum over the sum of weight * capital_employed
\* times 100, which is undefined exactly when the capital total is <= 0.
C21_PortfolioEva ==
    op = "calculate_portfolio_eva" =>
        /\ IsNum(ret[1])
        /\ ret[1] = EvaAbsTotal
        /\ isnan(ret[2]) <=> Le0(CapitalEmployedTotal)
        /\ Gt0(CapitalEmployedTotal) =>
              ret[2] = RatMul(RatMul(EvaAbsTotal, RatInv(CapitalEmployedTotal)), Num(100))

\* a portfolio with an unknown ticker, a company of undefined EVA and a
\* positive capital total
C21_Witness ==
    /\ op = "calculate_portfolio_eva"
    /\ \E i \in DOMAIN portfolio_weights : i > Len(companies_data)
    /\ \E i \in DOMAIN portfolio_weights :
          /\ i <= Len(companies_data)
          /\ isnan(calculate_eva(companies_data[i], 1)[1])
          /\ ~Eq0(portfolio_weights[i])
    /\ Weighted # {}
    /\ Gt0(CapitalEmployedTotal)
    /\ IsNum(ret[2])

\* an undefined input counts as 0
ZeroIfUndefined(x) == IF IsNum(x) THEN x ELSE Num(0)

\* C22: the combined_score of a computed metrics row is a defined number, equal
\* to 0.4 * eva_pct + 0.4 * efv_pct + 0.2 * upside_pct with every undefined
\* input counted as 0, so 0 when the three of them are undefined.
C22_CombinedScore ==
    (op = "_calculate_all_metrics" /\ ~ret.error) =>
        /\ IsNum(ret.combined_score)
        /\ ret.combined_score =
              RatAdd(RatAdd(RatMul(Rat(4, 10), ZeroIfUndefined(ret.eva_percentual)),
                            RatMul(Rat(4, 10), ZeroIfUndefined(ret.efv_percentual))),
                     RatMul(Rat(2, 10), ZeroIfUndefined(ret.upside_percentual)))
        /\ (/\ isnan(ret.eva_percentual) /\ isnan(ret.efv_percentual)
            /\ isnan(ret.upside_percentual)) => ret.combined_score = Num(0)

\* a row with a defined EVA and an undefined upside, which adds nothing
C22_Witness ==
    /\ op = "_calculate_all_metrics"
    /\ ~ret.error
    /\ IsNum(ret.eva_percentual)
    /\ ~Eq0(ret.eva_percentual)
    /\ isnan(ret.upside_percentual)
    /\ ~Eq0(ret.combined_score)

\* C23: when calculate_eva returns defined values, capital_employed > 0 and
\* equity + total_debt > 0, eva_pct = (roce - wacc) * 100 and
\* eva_abs = capital_employed * (roce - wacc), with
\* roce = ebit * (1 - 0.34) / capital_employed and wacc that of _calculate_wacc.
C23_EvaFormula ==
    op = "calculate_eva" =>
        LET ce   == CapitalEmployedOf(data)
            wacc == _calculate_wacc(data, beta)
            roce == Rat(data.ebit.n * 66, 100 * ce)
            gap  == RatAdd(roce, RatNeg(wacc))
        IN  /\ (IsNum(ret[1]) \/ IsNum(ret[2])) =>
                 /\ ce > 0
                 /\ TotalCapitalOf(data) > 0
                 /\ IsNum(wacc)
                 /\ ret[2] = RatMul(gap, Num(100))
                 /\ ret[1] = RatMul(Num(ce), gap)
            /\ (ce > 0 /\ TotalCapitalOf(data) > 0 /\ IsNum(data.ebit)) =>
                 (IsNum(ret[1]) /\ IsNum(ret[2]))

\* a defined EVA of a company whose return is not its cost of capital
C23_Witness ==
    /\ op = "calculate_eva"
    /\ IsNum(ret[1])
    /\ IsNum(ret[2])
    /\ ~Eq0(ret[2])
    /\ ~Eq0(data.ebit)
    /\ data.total_debt.n > 0

\* C24: wealth_current is eva_abs / wacc and is undefined exactly when wacc is 0
\* or undefined or eva_abs is undefined; wealth_future is
\* (market_cap + total_debt) - capital_employed; with wealth_current defined,
\* efv_abs = wealth_future - wealth_current and
\* efv_pct = efv_abs / capital_employed * 100; with wealth_current undefined
\* both EFV values are undefined.
C24_WealthAndEfv ==
    (op = "_calculate_all_metrics" /\ ~ret.error) =>
        LET wacc == _calculate_wacc(data, 1)
            ce   == CapitalEmployedOf(data)
            wealth_current == ret.riqueza_atual
            wealth_future  == ret.riqueza_futura
        IN  /\ isnan(wealth_current) <=> (isnan(wacc) \/ Eq0(wacc) \/ isnan(ret.eva_abs))
            /\ IsNum(wealth_current) \/ isnan(wealth_current)
            /\ IsNum(wealth_current) =>
                  /\ wealth_current = RatMul(ret.eva_abs, RatInv(wacc))
                  /\ ret.efv_abs = RatAdd(wealth_future, RatNeg(wealth_current))
                  /\ ret.efv_percentual =
                        RatMul(RatMul(ret.efv_abs, RatInv(Num(ce))), Num(100))
            /\ wealth_future = Num(data.market_cap.n + data.total_debt.n - ce)
            /\ isnan(wealth_current) => (isnan(ret.efv_abs) /\ isnan(ret.efv_percentual))

\* a company with a defined current wealth, some debt and a defined EFV
C24_Witness ==
    /\ op = "_calculate_all_metrics"
    /\ ~ret.error
    /\ IsNum(ret.riqueza_atual)
    /\ ~Eq0(ret.riqueza_atual)
    /\ data.total_debt.n > 0
    /\ IsNum(ret.efv_percentual)

\* a company whose current wealth is undefined though its future wealth is not
C24_UndefinedWealth ==
    /\ op = "_calculate_all_metrics"
    /\ ~ret.error
    /\ isnan(ret.riqueza_atual)
    /\ IsNum(ret.riqueza_futura)


\* a company with a defined EVA whose cost of capital is 0
C24_ZeroWacc ==
    /\ op = "_calculate_all_metrics"
    /\ ~ret.error
    /\ Eq0(_calculate_wacc(data, 1))
    /\ IsNum(ret.eva_abs)
    /\ isnan(ret.riqueza_atual)

\* ---------------------------------------------------------------------------
\* identify_opportunities on batches around the thresholds of its buckets

CompanyFairlyPriced == Company(1, 0, Num(1), 5, Num(1), 0)    \* upside 17.5
CompanyAtThreshold  == Company(1, 0, Num(32), 165, Num(1), 0) \* upside 20

OpportunityKinds ==
    <<CompanyPositive, CompanyUndefined, CompanyFairlyPriced, CompanyAtThreshold>>

\* the dictionaries of 1..MaxRanked companies of these kinds, the kinds in the
\* order of OpportunityKinds
OpportunityBatches ==
    UNION {{[i \in 1..n |-> [OpportunityKinds[k[i]] EXCEPT !.ticker = i]] :
              k \in {f \in [1..n -> 1..Len(OpportunityKinds)] :
                       \A i \in 1..(n - 1) : f[i] <= f[i + 1]}} :
           n \in 1..MaxRanked}

InitOpportunities ==
    /\ Idle
    /\ selic_rate = DefaultSelic
    /\ beta = 1
    /\ data = NoRecord
    /\ capital_employed = Num(0)
    /\ companies_data \in OpportunityBatches
    /\ profile = "moderate"
    /\ metric = "combined_score"
    /\ ascending = FALSE
    /\ criteria = DefaultCriteria
    /\ previous = NoCall
    /\ op = "init"
    /\ ret = <<>>

NextOpportunities == Call_identify_opportunities

SpecOpportunities == InitOpportunities /\ [][NextOpportunities]_vars

\* the companies of the batch whose metric, computed with a beta of 1, is a
\* defined number above the threshold
Above(column, threshold) ==
    {i \in 1..Len(companies_data) :
       LET efv == calculate_efv(companies_data[i], 1)
           x   == CASE column = "eva_pct" -> calculate_eva(companies_data[i], 1)[2]
                    [] column = "efv_pct" -> efv[2]
                    [] OTHER -> UpsideOf(companies_data[i], efv[1])
       IN  IsNum(x) /\ Lt(Num(threshold), x)}

AtMostOnce(bucket) ==
    \A k1, k2 \in 1..Len(bucket) : bucket[k1] = bucket[k2] => k1 = k2

\* C25: identify_opportunities lists a company under value_creators iff its
\* eva_pct is defined and > 0, under growth_potential iff its efv_pct is
\* defined and > 0, under undervalued iff its upside_pct is defined and > 20;
\* a company with an undefined metric is not in that bucket, and no bucket
\* lists a company twice.
C25_OpportunityBuckets ==
    (op = "identify_opportunities" /\ ~ret.raised) =>
        /\ Range(ret.value_creators) = Above("eva_pct", 0)
        /\ Range(ret.growth_potential) = Above("efv_pct", 0)
        /\ Range(ret.undervalued) = Above("upside_pct", 20)
        /\ AtMostOnce(ret.value_creators)
        /\ AtMostOnce(ret.growth_potential)
        /\ AtMostOnce(ret.undervalued)

\* a batch with an undervalued company of growth potential, a company of
\* undefined metrics in no bucket, and a value creator of positive upside
\* under 20
C25_Witness ==
    /\ op = "identify_opportunities"
    /\ ~ret.raised
    /\ \E i \in Range(ret.undervalued) : i \in Range(ret.growth_potential)
    /\ \E i \in Range(ret.value_creators) : i \notin Range(ret.undervalued)
    /\ \E i \in 1..Len(companies_data) :
          /\ isnan(calculate_eva(companies_data[i], 1)[2])
          /\ i \notin Range(ret.value_creators)
    /\ \E i \in Above("upside_pct", 0) : i \notin Range(ret.undervalued)

\* a company whose upside is exactly 20 is not undervalued
C25_AtThreshold ==
    /\ op = "identify_opportunities"
    /\ ~ret.raised
    /\ \E i \in 1..Len(companies_data) :
          /\ UpsideOf(companies_data[i], calculate_efv(companies_data[i], 1)[1]) = Num(20)
          /\ i \notin Range(ret.undervalued)
          /\ i \in Range(ret.value_creators)

\* ---------------------------------------------------------------------------
\* The calculator on the records of sample_data.py. The amounts are in
\* billions: every amount of the file the calculator reads is a whole number
\* of billions.

SampleRecord(ticker, market_cap, ebit, total_debt, equity, receivable, inventory,
             payable, ppe) ==
    [ticker |-> ticker, market_cap |-> Num(market_cap), total_debt |-> Num(total_debt),
     equity |-> Num(equity), ebit |-> Num(ebit), property_plant_equipment |-> Num(ppe),
     accounts_receivable |-> Num(receivable), inventory |-> Num(inventory),
     accounts_payable |-> Num(payable)]

PETR4 == SampleRecord(1, 502, 200, 400, 500, 90, 50, 80, 800)
VALE3 == SampleRecord(2, 280, 70, 70, 280, 50, 30, 40, 450)
ITUB4 == SampleRecord(3, 300, 75, 2200, 220, 0, 0, 0, 60)
BBDC4 == SampleRecord(4, 135, 30, 1600, 150, 0, 0, 0, 40)
WEGE3 == SampleRecord(5, 165, 6, 10, 25, 8, 10, 7, 15)

sample_financial_data == {PETR4, VALE3, ITUB4, BBDC4, WEGE3}

\* selic_rate arguments that give a risk_free_rate of 0.10, and one that does not
SampleSelicRates == {0, DefaultSelic, 15}

InitSample ==
    /\ Idle
    /\ selic_rate \in SampleSelicRates
    /\ beta \in 0..MaxBeta
    /\ data \in sample_financial_data
    /\ capital_employed = Num(0)
    /\ companies_data = <<>>
    /\ profile = "moderate"
    /\ metric = "combined_score"
    /\ ascending = FALSE
    /\ criteria = DefaultCriteria
    /\ previous = NoCall
    /\ op = "init"
    /\ ret = <<>>

\* the calls whose exact results stay within 32-bit numerators
NextSample ==
    \/ Call_calculate_wacc
    \/ Call_calculate_roce
    \/ Call_calculate_eva
    \/ Call_calculate_efv

SpecSample == InitSample /\ [][NextSample]_vars

\* C26: for the PETR4 sample record with beta = 1 and risk_free_rate = 0.10,
\* the WACC is defined and strictly between 0.05 and 0.20, and eva_pct is
\* defined.
C26_SampleWacc ==
    (data = PETR4 /\ beta = 1 /\ risk_free_rate = Rat(10, 100)) =>
        /\ op = "_calculate_wacc" =>
              /\ IsNum(ret[1])
              /\ Lt(Rat(5, 100), ret[1])
              /\ Lt(ret[1], Rat(20, 100))
        /\ op = "calculate_eva" => IsNum(ret[2])

\* the EVA of PETR4 was computed at a beta of 1 and a risk-free rate of 0.10
C26_Witness ==
    /\ data = PETR4
    /\ beta = 1
    /\ selic_rate = DefaultSelic
    /\ op = "calculate_eva"
    /\ IsNum(ret[2])
    /\ ~Eq0(ret[2])

\* the WACC of PETR4 was computed at a beta of 1 and the default rate
C26_WaccComputed ==
    /\ data = PETR4
    /\ beta = 1
    /\ selic_rate = 0
    /\ op = "_calculate_wacc"
    /\ ret[1] = Rat(5584, 45000)

\* ---------------------------------------------------------------------------
\* The calculator on records with working-capital inputs that are missing

MissingOr(amounts) == {None} \cup {Num(k) : k \in amounts}

IncompleteRecords ==
    [ticker : {1},
     market_cap : {Num(MaxAmount)},
     total_debt : {Num(1)},
     equity : {Num(1)},
     ebit : {Num(MaxAmount)},
     property_plant_equipment : MissingOr({0, 2}),
     accounts_receivable : MissingOr({0, 1}),
     inventory : MissingOr({0, 1}),
     accounts_payable : MissingOr({0, 2})]

InitMissing ==
    /\ Idle
    /\ selic_rate = DefaultSelic
    /\ beta = 1
    /\ data \in IncompleteRecords
    /\ capital_employed = Num(0)
    /\ companies_data = <<>>
    /\ profile = "moderate"
    /\ metric = "combined_score"
    /\ ascending = FALSE
    /\ criteria = DefaultCriteria
    /\ previous = NoCall
    /\ op = "init"
    /\ ret = <<>>

Call_calculate_ncg ==
    /\ op = "init"
    /\ op' = "_calculate_ncg"
    /\ ret' = <<_calculate_ncg(data)>>
    /\ UNCHANGED <<elsewhere, metric, ascending, criteria, previous, selic_rate, beta, data,
                   capital_employed, companies_data, profile>>

Call_calculate_capital_employed ==
    /\ op = "init"
    /\ op' = "_calculate_capital_employed"
    /\ ret' = <<_calculate_capital_employed(data)>>
    /\ capital_employed' = ret'[1]
    /\ UNCHANGED <<elsewhere, metric, ascending, criteria, previous, selic_rate, beta, data,
                   companies_data, profile>>

NextMissing ==
    \/ Call_calculate_ncg
    \/ Call_calculate_capital_employed
    \/ Call_calculate_eva

SpecMissing == InitMissing /\ [][NextMissing]_vars

\* a missing amount counted as 0
OrZero(x) == IF x.t = "none" THEN 0 ELSE x.n

NcgOf(r) ==
    OrZero(r.accounts_receivable) + OrZero(r.inventory) - OrZero(r.accounts_payable)

SomeInputMissing(r) ==
    \E x \in {r.accounts_receivable, r.inventory, r.accounts_payable} : x.t = "none"

\* C27: when accounts_receivable, inventory or accounts_payable is missing on a
\* record, NCG and capital_employed are computed with that input as 0 and the
\* engine does not raise.
C27_MissingInputsCountAsZero ==
    SomeInputMissing(data) =>
        /\ op = "_calculate_ncg" => ret[1] = Num(NcgOf(data))
        /\ op = "_calculate_capital_employed" =>
              ret[1] = Num(OrZero(data.property_plant_equipment) + NcgOf(data))
        /\ op = "calculate_eva" => (~IsRaise(ret[1]) /\ ~IsRaise(ret[2]))

\* with every working-capital input given, the missing fixed assets count as 0
C27_MissingFixedAssets ==
    (op = "_calculate_capital_employed" /\ ~SomeInputMissing(data)) =>
        ret[1] = Num(OrZero(data.property_plant_equipment) + NcgOf(data))

\* ---------------------------------------------------------------------------
\* get_analysis_system called by the request handlers of the threaded server.
\* A thread can be switched out between any two statements of the function.
\* An IbovespaAnalysisSystem object is identified by its construction number;
\* 0 is None.

\* the handlers that call get_analysis_system at the same time
MaxHandlers == 3

InitWeb ==
    /\ selic_rate = DefaultSelic
    /\ beta = 1
    /\ data = NoRecord
    /\ capital_employed = Num(0)
    /\ companies_data = <<>>
    /\ profile = "moderate"
    /\ metric = "combined_score"
    /\ ascending = FALSE
    /\ criteria = DefaultCriteria
    /\ previous = NoCall
    /\ op = "init"
    /\ ret = <<>>
    /\ portfolio_weights = <<>>
    /\ request = <<>>
    /\ analysis_system_instance = 0
    /\ constructed = 0
    /\ handlers = [h \in 1..MaxHandlers |-> [pc |-> "if", new |-> 0, got |-> 0]]

\* if analysis_system_instance is None:
Test_instance_is_None(h) ==
    /\ handlers[h].pc = "if"
    /\ handlers' = [handlers EXCEPT ![h].pc =
                       IF analysis_system_instance = 0 THEN "construct" ELSE "return"]
    /\ UNCHANGED <<analysis_vars, portfolio_weights, request, analysis_system_instance,
                   constructed>>

\* the right-hand side IbovespaAnalysisSystem()
Construct_IbovespaAnalysisSystem(h) ==
    /\ handlers[h].pc = "construct"
    /\ constructed' = constructed + 1
    /\ handlers' = [handlers EXCEPT ![h].pc = "assign", ![h].new = constructed + 1]
    /\ UNCHANGED <<analysis_vars, portfolio_weights, request, analysis_system_instance>>

\* analysis_system_instance = <the new object>
Assign_analysis_system_instance(h) ==
    /\ handlers[h].pc = "assign"
    /\ analysis_system_instance' = handlers[h].new
    /\ handlers' = [handlers EXCEPT ![h].pc = "return"]
    /\ UNCHANGED <<analysis_vars, portfolio_weights, request, constructed>>

\* return analysis_system_instance
Return_analysis_system_instance(h) ==
    /\ handlers[h].pc = "return"
    /\ handlers' = [handlers EXCEPT ![h].pc = "done", ![h].got = analysis_system_instance]
    /\ UNCHANGED <<analysis_vars, portfolio_weights, request, analysis_system_instance,
                   constructed>>

get_analysis_system(h) ==
    \/ Test_instance_is_None(h)
    \/ Construct_IbovespaAnalysisSystem(h)
    \/ Assign_analysis_system_instance(h)
    \/ Return_analysis_system_instance(h)

NextWeb == \E h \in 1..MaxHandlers : get_analysis_system(h)

SpecWeb == InitWeb /\ [][NextWeb]_vars

\* C28: in every interleaving of concurrent handlers calling
\* get_analysis_system, IbovespaAnalysisSystem is constructed at most once and
\* every caller receives the same instance.
C28_SingleInstance ==
    /\ constructed <= 1
    /\ \A h1, h2 \in DOMAIN handlers :
          (handlers[h1].pc = "done" /\ handlers[h2].pc = "done") =>
              handlers[h1].got = handlers[h2].got

\* handlers that call one after the other share the one instance
C28_SequentialCalls ==
    /\ DOMAIN handlers # {}
    /\ \A h \in DOMAIN handlers : handlers[h].pc = "done" /\ handlers[h].got = 1
    /\ constructed = 1

\* C29: for every profile and every non-empty batch, the mapping returned by
\* suggest_portfolio_allocation has exactly one entry per input ticker, also
\* for the conservative and aggressive batches whose bucket below the top
\* has a score sum that is not positive.
C29_OneEntryPerTicker ==
    (op = "suggest_portfolio_allocation" /\ Len(companies_data) > 0) =>
        DOMAIN ret.weights = 1..Len(companies_data)

\* a moderate allocation, and a concentrated one whose two buckets have
\* positive score sums, have an entry per ticker
C29_EveryTickerListed ==
    /\ op = "suggest_portfolio_allocation"
    /\ profile = "aggressive"
    /\ Len(companies_data) > 3
    /\ DOMAIN ret.weights = 1..Len(companies_data)

\* ---------------------------------------------------------------------------
\* BrapiDataCollector._make_request. The server is free to answer anything,
\* 429 every time included. A call made on a 429 is a nested call: its result
\* is returned unchanged by every enclosing call, and an exception that is not
\* a RequestException leaves every enclosing call.

\* the nested _make_request calls the interpreter's recursion limit allows
\* (sys.getrecursionlimit() frames, 1000 unless changed)
RecursionLimit == 12

Answers == {"200", "429", "500", "RequestException"}

InitRequest ==
    /\ selic_rate = DefaultSelic
    /\ beta = 1
    /\ data = NoRecord
    /\ capital_employed = Num(0)
    /\ companies_data = <<>>
    /\ profile = "moderate"
    /\ metric = "combined_score"
    /\ ascending = FALSE
    /\ criteria = DefaultCriteria
    /\ previous = NoCall
    /\ op = "init"
    /\ ret = <<>>
    /\ portfolio_weights = <<>>
    /\ analysis_system_instance = 0
    /\ constructed = 0
    /\ handlers = <<>>
    /\ request = [pc |-> "rate_limit", depth |-> 1, attempts |-> 0, slept |-> FALSE,
                  answer |-> "", result |-> ""]

\* if time_since_last_request < self.request_delay: time.sleep(...)
Rate_limiting ==
    /\ request.pc = "rate_limit"
    /\ \E too_soon \in BOOLEAN :
          request' = [request EXCEPT !.pc = "get", !.slept = too_soon]
    /\ UNCHANGED <<analysis_vars, portfolio_weights, web_vars>>

\* requests.get(..., timeout=30): an answer, or a RequestException
Requests_get ==
    /\ request.pc = "get"
    /\ \E answer \in Answers :
          request' = [request EXCEPT !.pc = "answered", !.answer = answer,
                                     !.attempts = @ + 1]
    /\ UNCHANGED <<analysis_vars, portfolio_weights, web_vars>>

\* status 200: return response.json()
Return_json ==
    /\ request.pc = "answered"
    /\ request.answer = "200"
    /\ request' = [request EXCEPT !.pc = "returned", !.result = "json"]
    /\ UNCHANGED <<analysis_vars, portfolio_weights, web_vars>>

\* any other status but 429, or a RequestException: return None
Return_None ==
    /\ request.pc = "answered"
    /\ request.answer \in {"500", "RequestException"}
    /\ request' = [request EXCEPT !.pc = "returned", !.result = "None"]
    /\ UNCHANGED <<analysis_vars, portfolio_weights, web_vars>>

\* status 429: time.sleep(60), then return self._make_request(url, params);
\* past the recursion limit the call raises RecursionError, which no
\* enclosing call catches
Retry_after_429 ==
    /\ request.pc = "answered"
    /\ request.answer = "429"
    /\ request' = IF request.depth < RecursionLimit
                  THEN [request EXCEPT !.pc = "rate_limit", !.depth = @ + 1]
                  ELSE [request EXCEPT !.pc = "raised", !.result = "RecursionError"]
    /\ UNCHANGED <<analysis_vars, portfolio_weights, web_vars>>

NextRequest ==
    \/ Rate_limiting
    \/ Requests_get
    \/ Return_json
    \/ Return_None
    \/ Retry_after_429

\* the calling thread keeps running: sleeps end and requests.get times out
SpecRequest == InitRequest /\ [][NextRequest]_vars /\ WF_vars(NextRequest)

\* C30: every call to _make_request eventually returns, the JSON body or
\* None, after a bounded number of HTTP attempts, also when the server
\* answers 429 every time.
C30_EventuallyReturns ==
    <>(/\ request.pc = "returned"
       /\ request.result \in {"json", "None"}
       /\ request.attempts <= RecursionLimit)

\* C30 read as a statement about how a call may end: never by an exception
C30_NeverRaises == request.pc # "raised"

\* a call that was answered 429 and then 200 returned the body
C30_RetriedOnce ==
    /\ request.pc = "returned"
    /\ request.result = "json"
    /\ request.attempts = 2
====
